---- MODULE Spec2Model ----
(***************************************************************************)
(* Model of the NYC air-quality data-serving core                          *)
(* (src/backend/main.py, the FastAPI backend, and src/app.py, the          *)
(* Streamlit dashboard): the Filter Engine, the Aggregation Engine, the    *)
(* Dataset Accessor with its process-wide cache, and AQI scoring.          *)
(*                                                                         *)
(* A table (pandas DataFrame) is a record [columns, rows]; rows is a       *)
(* sequence of records, each carrying its index label idx.  Python's None  *)
(* is the string "None", NaN is the string "NaN".                          *)
(***************************************************************************)
EXTENDS Integers, Sequences, FiniteSets, TLC

VARIABLES
    fVariant,   \* which copy of filter_data runs: "backend" or "app"
    fDf,        \* the table handed to filter_data
    fReq,       \* the Query Specification of the last call
    fOut,       \* the outcome of the last filter_data call
    fPc,        \* "idle" before the call, "done" after it
    aDf,        \* the dataset load_data() returns to get_filtered_data
    aReq,       \* the FilterRequest of the last get_filtered_data call
    aFiltered,  \* df_filtered of that call
    aDisplay,   \* df_display of that call
    aResp,      \* the response of that call
    aPc,        \* "idle" before the call, "done" after it
    files,      \* the parquet file at each location: [exists, df]
    cache,      \* _data_cache: [loaded, df]; loaded = FALSE is Python's None
    lOut,       \* the last backend call: [op, req, raised, read, df]
    qPollutant, \* the pollutant label handed to calculate_aqi
    qValue,     \* the value handed to calculate_aqi
    qOut,       \* the result of the last calculate_aqi call
    qPc,        \* "idle" before the call, "done" after it
    hDf,        \* the dataset load_data() returns to an analytics handler
    hOp,        \* the analytics endpoint of the last request
    hReq,       \* the FilterRequest of that request
    hOut,       \* the response of that request
    hPc,        \* "idle" before the request, "done" after it
    nIn,        \* the raw labels handed to a name normalizer or to the column naming
    nOut,       \* the call site and the names it returned
    tPc,        \* where each caller of load_data() stands
    tFile,      \* parquet_file of each caller: an index into the paths, 0: None
    tDf,        \* the local df of each caller
    tRet        \* what each caller's load_data() returned

filterVars == <<fVariant, fDf, fReq, fOut, fPc>>
aggVars == <<aDf, aReq, aFiltered, aDisplay, aResp, aPc>>
loadVars == <<files, cache, lOut>>
aqiVars == <<qPollutant, qValue, qOut, qPc>>
analyticsVars == <<hDf, hOp, hReq, hOut, hPc>>
normVars == <<nIn, nOut>>
callerVars == <<tPc, tFile, tDf, tRet>>
vars == <<filterVars, aggVars, loadVars, aqiVars, analyticsVars, normVars, callerVars>>

None == "None"
NaN == "NaN"

\* Optional[List[...]]: Python's None, or a list
NoList == [isNone |-> TRUE, list |-> <<>>]
List(s) == [isNone |-> FALSE, list |-> s]

NoTable == [columns |-> {}, rows |-> <<>>]

(***************************************************************************)
(* Bounds of the filter model.                                             *)
(***************************************************************************)
MaxRows == 2

\* two sample dates, as day numbers
Dates == {1, 2}
Pollutants == {"PM2.5", "O3"}
Boroughs == {"Manhattan", "Bronx"}

\* Sequences over S of length 0..n
SeqsUpTo(S, n) == UNION {[1..k -> S] : k \in 0..n}

\* give every row its index label (its position in the loaded table)
WithIndex(rows) == [i \in 1..Len(rows) |->
                      [f \in (DOMAIN rows[i]) \cup {"idx"} |->
                          IF f = "idx" THEN i ELSE rows[i][f]]]

\* Python truthiness of an optional list
Truthy(x) == ~x.isNone /\ Len(x.list) > 0

\* x in list
InList(x, l) == \E i \in 1..Len(l.list) : l.list[i] = x

(***************************************************************************)
(* filter_data, one definition per statement.                              *)
(***************************************************************************)
\* a slip: df[start:end] with integers slices rows by position, not by date
DateFilterBySlice(variant, rows, date_range) ==
    IF Truthy(date_range) /\ Len(date_range.list) = 2
    THEN [raised |-> None,
          rows |-> SelectSeq(rows, LAMBDA r :
                     \E i \in 1..Len(rows) :
                        rows[i] = r /\ i >= date_range.list[1] /\ i <= date_range.list[2])]
    ELSE [raised |-> None, rows |-> rows]

\* Date range filter: backend main.py:120-125, app.py:65-70.  The app unpacks
\* date_range whenever it is truthy, which raises ValueError unless it has
\* exactly two elements.
DateFilter(variant, rows, date_range) ==
    IF variant = "backend"
    THEN IF Truthy(date_range) /\ Len(date_range.list) = 2
         THEN [raised |-> None,
               rows |-> SelectSeq(rows, LAMBDA r :
                          r.date >= date_range.list[1] /\ r.date <= date_range.list[2])]
         ELSE [raised |-> None, rows |-> rows]
    ELSE IF Truthy(date_range)
         THEN IF Len(date_range.list) = 2
              THEN [raised |-> None,
                    rows |-> SelectSeq(rows, LAMBDA r :
                               r.date >= date_range.list[1] /\ r.date <= date_range.list[2])]
              ELSE [raised |-> "ValueError", rows |-> <<>>]
         ELSE [raised |-> None, rows |-> rows]

\* Pollutant filter: main.py:128-129, app.py:73-74
PollutantFilter(rows, pollutants) ==
    IF Truthy(pollutants)
    THEN SelectSeq(rows, LAMBDA r : InList(r.pollutant, pollutants))
    ELSE rows

\* a slip: only the first requested label is compared with the sentinel
BoroughFilterFirstOnly(rows, boroughs) ==
    IF Truthy(boroughs) /\ boroughs.list[1] # "All"
    THEN SelectSeq(rows, LAMBDA r : InList(r.borough, boroughs))
    ELSE rows

\* Borough filter: main.py:132-133, app.py:77-78
BoroughFilter(rows, boroughs) ==
    IF Truthy(boroughs) /\ ~InList("All", boroughs)
    THEN SelectSeq(rows, LAMBDA r : InList(r.borough, boroughs))
    ELSE rows

\* a slip: the flag column is read whatever exclude_outliers says
OutlierFilterAlways(columns, rows, exclude_outliers) ==
    IF "is_outlier" \in columns
    THEN SelectSeq(rows, LAMBDA r : ~r.is_outlier)
    ELSE rows

\* Exclude outliers: main.py:136-137, app.py:81-82
OutlierFilter(columns, rows, exclude_outliers) ==
    IF exclude_outliers /\ "is_outlier" \in columns
    THEN SelectSeq(rows, LAMBDA r : ~r.is_outlier)
    ELSE rows

\* filter_data(df, date_range, pollutants, boroughs, exclude_outliers):
\* the four statements in the order of the code; an exception in the date
\* statement ends the call.
filter_data(variant, df, req) ==
    LET d == DateFilter(variant, df.rows, req.date_range)
    IN  IF d.raised # None
        THEN [raised |-> d.raised, df |-> NoTable]
        ELSE [raised |-> None,
              df |-> [columns |-> df.columns,
                      rows |-> OutlierFilter(df.columns,
                                 BoroughFilter(
                                   PollutantFilter(d.rows, req.pollutants),
                                   req.boroughs),
                                 req.exclude_outliers)]]

(***************************************************************************)
(* Numbers.  A float is NaN or an exact fraction num/den in lowest terms   *)
(* with den > 0.                                                           *)
(***************************************************************************)
NaNF == [nan |-> TRUE, num |-> 0, den |-> 1]
F(n) == [nan |-> FALSE, num |-> n, den |-> 1]

RECURSIVE Gcd(_, _)
Gcd(a, b) == IF b = 0 THEN a ELSE Gcd(b, a % b)

Abs(x) == IF x < 0 THEN -x ELSE x

\* n / d for d > 0
Frac(n, d) ==
    LET g == Gcd(Abs(n), d)
    IN  [nan |-> FALSE, num |-> n \div g, den |-> d \div g]

\* a < b for two floats that are not NaN
FLess(a, b) == a.num * b.den < b.num * a.den

RECURSIVE SumSeq(_)
SumSeq(s) == IF s = <<>> THEN 0 ELSE Head(s) + SumSeq(Tail(s))

(***************************************************************************)
(* aggregate_data(df, agg_level)                                           *)
(***************************************************************************)
\* the grouping columns of a level: main.py:144-151, app.py:89-96
LevelCols(agg_level) ==
    CASE agg_level = "Season" -> <<"season", "year", "pollutant">>
      [] agg_level = "Year" -> <<"year", "pollutant">>
      [] agg_level = "Month" -> <<"year", "month", "pollutant">>
      [] OTHER -> <<>>

\* df['borough'].notna().any()
AnyBorough(df) == \E i \in 1..Len(df.rows) : df.rows[i].borough # NaN

\* main.py:153-155: add borough if available
GroupCols(df, agg_level) ==
    IF "borough" \in df.columns /\ AnyBorough(df)
    THEN Append(LevelCols(agg_level), "borough")
    ELSE LevelCols(agg_level)

\* the key of a row under the grouping columns
KeyOf(r, cols) == [i \in 1..Len(cols) |-> r[cols[i]]]

\* groupby sorts the groups by key; NaN keys (dropna=False) come last.
\* Strings compare alphabetically: the labels of the model in that order.
AlphaOrder == <<"Annual", "Annual vehicle miles traveled", "Bronx", "Fall", "Manhattan",
                "Nitrogen dioxid", "Nitrogen dioxide (NO2)", "O3", "PM2.5",
                "Spring", "Summer", "Truck Miles", "Vehicle Miles", "Winter">>

AlphaRank(x) ==
    IF \E i \in 1..Len(AlphaOrder) : AlphaOrder[i] = x
    THEN CHOOSE i \in 1..Len(AlphaOrder) : AlphaOrder[i] = x
    ELSE Len(AlphaOrder) + 1

CellLess(col, a, b) ==
    IF col \in {"year", "month"} THEN a < b ELSE AlphaRank(a) < AlphaRank(b)

KeyLess(cols, k1, k2) ==
    \E i \in 1..Len(cols) :
        /\ \A j \in 1..(i - 1) : k1[j] = k2[j]
        /\ k1[i] # k2[i]
        /\ CellLess(cols[i], k1[i], k2[i])

RECURSIVE SortKeys(_, _)
SortKeys(cols, keys) ==
    IF keys = {} THEN <<>>
    ELSE LET m == CHOOSE k \in keys : \A o \in keys \ {k} : KeyLess(cols, k, o)
         IN  <<m>> \o SortKeys(cols, keys \ {m})

\* the non-NaN values of a group, in row order
Values(rows) ==
    LET ok == SelectSeq(rows, LAMBDA r : ~r.value.nan)
    IN  [i \in 1..Len(ok) |-> ok[i].value.num]

\* a slip: 'size' where 'count' stands, which also counts the NaN values
ValueCountSize(rows) == Len(rows)

\* 'count': the number of non-NaN values of the group
ValueCount(rows) == Len(Values(rows))

ValueMean(rows) ==
    LET v == Values(rows)
    IN  IF Len(v) = 0 THEN NaNF ELSE Frac(SumSeq(v), Len(v))

ValueMin(rows) ==
    LET v == Values(rows)
    IN  IF Len(v) = 0 THEN NaNF
        ELSE F(CHOOSE x \in {v[i] : i \in 1..Len(v)} :
                 \A j \in 1..Len(v) : x <= v[j])

ValueMax(rows) ==
    LET v == Values(rows)
    IN  IF Len(v) = 0 THEN NaNF
        ELSE F(CHOOSE x \in {v[i] : i \in 1..Len(v)} :
                 \A j \in 1..Len(v) : x >= v[j])

\* the k-th smallest of the values v (k = 1 is the minimum)
KthSmallest(v, k) ==
    CHOOSE x \in {v[i] : i \in 1..Len(v)} :
        /\ Cardinality({i \in 1..Len(v) : v[i] < x}) < k
        /\ Cardinality({i \in 1..Len(v) : v[i] <= x}) >= k

ValueMedian(rows) ==
    LET v == Values(rows)
        n == Len(v)
    IN  IF n = 0 THEN NaNF
        ELSE IF n % 2 = 1 THEN F(KthSmallest(v, (n + 1) \div 2))
        ELSE Frac(KthSmallest(v, n \div 2) + KthSmallest(v, n \div 2 + 1), 2)

\* 'min' of the date column of a group
DateMin(rows) ==
    CHOOSE d \in {rows[i].date : i \in 1..Len(rows)} :
        \A j \in 1..Len(rows) : d <= rows[j].date

StatColumns == {"value_mean", "value_median", "value_min", "value_max",
                "value_count", "date"}

\* one output row of groupby(...).agg(...).reset_index(), columns flattened
\* and date_min renamed to date: main.py:157-175
AggRow(cols, key, members, i) ==
    [c \in {cols[j] : j \in 1..Len(cols)} \cup StatColumns \cup {"idx"} |->
        CASE c = "idx" -> i
          [] c = "value_mean" -> ValueMean(members)
          [] c = "value_median" -> ValueMedian(members)
          [] c = "value_min" -> ValueMin(members)
          [] c = "value_max" -> ValueMax(members)
          [] c = "value_count" -> ValueCount(members)
          [] c = "date" -> DateMin(members)
          [] OTHER -> key[CHOOSE j \in 1..Len(cols) : cols[j] = c]]

\* a slip: groupby without dropna=False, which drops the rows with a NaN key
aggregate_data_dropna(df, agg_level) ==
    IF agg_level \notin {"Season", "Year", "Month"}
    THEN df
    ELSE LET cols == GroupCols(df, agg_level)
             kept == SelectSeq(df.rows,
                               LAMBDA r : \A j \in 1..Len(cols) :
                                   cols[j] \in {"season", "pollutant", "borough"}
                                       => r[cols[j]] # NaN)
             keys == SortKeys(cols, {KeyOf(kept[i], cols) : i \in 1..Len(kept)})
         IN  [columns |-> {cols[j] : j \in 1..Len(cols)} \cup StatColumns,
              rows |-> [i \in 1..Len(keys) |->
                          AggRow(cols, keys[i],
                                 SelectSeq(kept, LAMBDA r : KeyOf(r, cols) = keys[i]),
                                 i)]]

\* aggregate_data: main.py:142-177, app.py:87-122
aggregate_data(df, agg_level) ==
    IF agg_level \notin {"Season", "Year", "Month"}
    THEN df
    ELSE LET cols == GroupCols(df, agg_level)
             keys == SortKeys(cols, {KeyOf(df.rows[i], cols) : i \in 1..Len(df.rows)})
         IN  [columns |-> {cols[j] : j \in 1..Len(cols)} \cup StatColumns,
              rows |-> [i \in 1..Len(keys) |->
                          AggRow(cols, keys[i],
                                 SelectSeq(df.rows, LAMBDA r : KeyOf(r, cols) = keys[i]),
                                 i)]]

(***************************************************************************)
(* get_filtered_data: POST /api/data/filtered                              *)
(***************************************************************************)
\* Series.astype(str) of the date column
DateStr(d) == <<"str", d>>

\* df_display['date'] = df_display['date'].astype(str): main.py:227
WithDateStr(df) ==
    IF "date" \in df.columns
    THEN [df EXCEPT !.rows = [i \in 1..Len(df.rows) |->
                                [df.rows[i] EXCEPT !.date = DateStr(@)]]]
    ELSE df

\* the unit of the response: main.py:232
ResponseUnit(df_display) ==
    IF "unit" \in df_display.columns /\ Len(df_display.rows) > 0
    THEN df_display.rows[1].unit
    ELSE ""

\* the whole handler, from the loaded dataset to the response
get_filtered_data(df, request) ==
    LET df_filtered == filter_data("backend", df, request).df
        df_display == IF request.agg_level # "Raw"
                      THEN aggregate_data(df_filtered, request.agg_level)
                      ELSE df_filtered
    IN  IF Len(df_filtered.rows) = 0
        THEN [filtered |-> df_filtered, display |-> NoTable,
              resp |-> [data |-> <<>>,
                        message |-> "No data matches the selected filters",
                        value_col |-> "", unit |-> ""]]
        ELSE [filtered |-> df_filtered, display |-> df_display,
              resp |-> [data |-> WithDateStr(df_display).rows,
                        message |-> "",
                        value_col |-> IF request.agg_level # "Raw"
                                      THEN "value_mean" ELSE "value",
                        unit |-> ResponseUnit(df_display)]]

(***************************************************************************)
(* Inputs of the aggregation model.                                        *)
(***************************************************************************)
MaxAggRows == 2

\* (year, season, month) of a measurement period
Periods == {<<2020, "Winter", 1>>, <<2020, "Summer", 7>>, <<2021, "Winter", 1>>}
AggBoroughs == {"Manhattan", NaN}
AggValues == {NaNF, F(10), F(20)}

\* the unit of a pollutant (the dataset keeps it constant per pollutant)
UnitOf(pollutant) == IF pollutant = "PM2.5" THEN "ug/m3" ELSE "ppb"

MeasurementColumns == {"date", "year", "month", "season", "pollutant",
                       "borough", "value", "unit"}

Measurements ==
    {[date |-> pd[1] * 100 + pd[3], year |-> pd[1], month |-> pd[3],
      season |-> pd[2], pollutant |-> p, borough |-> b, value |-> v,
      unit |-> UnitOf(p)] :
        pd \in Periods, p \in Pollutants, b \in AggBoroughs, v \in AggValues}

AggTables ==
    {[columns |-> MeasurementColumns, rows |-> WithIndex(s)] :
        s \in SeqsUpTo(Measurements, MaxAggRows)}

Levels == {"Raw", "Month", "Season", "Year"}

AggRequests == [date_range : {NoList}, pollutants : {NoList, List(<<"O3">>)},
                boroughs : {NoList}, exclude_outliers : {TRUE},
                agg_level : Levels]

NoResp == [data |-> <<>>, message |-> "", value_col |-> "", unit |-> ""]

AggIdle ==
    /\ aDf = NoTable
    /\ aReq = [date_range |-> NoList, pollutants |-> NoList, boroughs |-> NoList,
               exclude_outliers |-> TRUE, agg_level |-> "Season"]
    /\ aFiltered = NoTable
    /\ aDisplay = NoTable
    /\ aResp = NoResp
    /\ aPc = "idle"

FilterIdle ==
    /\ fVariant = "backend"
    /\ fDf = NoTable
    /\ fReq = [date_range |-> NoList, pollutants |-> NoList,
               boroughs |-> NoList, exclude_outliers |-> TRUE]
    /\ fOut = [raised |-> None, df |-> NoTable]
    /\ fPc = "done"


(***************************************************************************)
(* The analytics handlers.  A handler is an operator from the dataset      *)
(* load_data() returns and the FilterRequest to the response.              *)
(***************************************************************************)
FSub(a, b) == Frac(a.num * b.den - b.num * a.den, a.den * b.den)

FMulInt(a, n) == Frac(a.num * n, a.den)

\* a / b for b # 0
FDiv(a, b) ==
    IF b.num > 0 THEN Frac(a.num * b.den, a.den * b.num)
    ELSE Frac(-(a.num * b.den), a.den * (-b.num))

RECURSIVE FSum(_)
FSum(s) ==
    IF s = <<>> THEN F(0)
    ELSE LET t == FSum(Tail(s))
         IN  Frac(Head(s).num * t.den + t.num * Head(s).den, Head(s).den * t.den)

\* Series.mean(): the mean of the cells that are not NaN, NaN if there is none
SeriesMean(cells) ==
    LET ok == SelectSeq(cells, LAMBDA c : ~c.nan)
        s == FSum(ok)
    IN  IF Len(ok) = 0 THEN NaNF ELSE Frac(s.num, s.den * Len(ok))

\* the elements of a set of integers in increasing order
RECURSIVE SortedSeq(_)
SortedSeq(S) ==
    IF S = {} THEN <<>>
    ELSE LET m == CHOOSE x \in S : \A y \in S : x <= y
         IN  <<m>> \o SortedSeq(S \ {m})

\* Series.unique(): the values of a column in order of first appearance
Unique(rows, col) ==
    LET first == SortedSeq({i \in 1..Len(rows) :
                               \A j \in 1..(i - 1) : rows[j][col] # rows[i][col]})
    IN  [k \in 1..Len(first) |-> rows[first[k]][col]]

\* the cells of a column, in row order
Column(rows, col) == [i \in 1..Len(rows) |-> rows[i][col]]

\* main.py:203-224 and its copies in the other handlers: the filtered view
\* and the table and value column the handler works on
Views(df, request) ==
    LET df_filtered == filter_data("backend", df, request).df
    IN  [filtered |-> df_filtered,
         display |-> IF request.agg_level # "Raw"
                     THEN aggregate_data(df_filtered, request.agg_level)
                     ELSE df_filtered,
         value_col |-> IF request.agg_level # "Raw" THEN "value_mean" ELSE "value"]

NoDataError == [error |-> "No data matches the selected filters"]

(***************************************************************************)
(* get_trend_analysis: POST /api/trends/analysis                           *)
(***************************************************************************)
RECURSIVE Lcm(_)
\* a common denominator of a sequence of fractions
Lcm(s) ==
    IF s = <<>> THEN 1
    ELSE LET t == Lcm(Tail(s))
         IN  (Head(s).den * t) \div Gcd(Head(s).den, t)

\* the square of the critical correlation coefficient of the two-sided
\* t-test at 0.05 with n points: p < 0.05 exactly when r^2 exceeds it.
\* n = 3: cos(0.025 pi)^2 = 0.993844..., n = 4: 0.95^2
CriticalR2(n) ==
    CASE n = 3 -> [num |-> 1453, den |-> 1462]
      [] n = 4 -> [num |-> 361, den |-> 400]

\* scipy.stats.linregress(x, y) for integers x, not all equal, and
\* fractions y: least squares.  With two points the p-value is 1.0 when
\* the two y are equal and 0.0 otherwise; with all y equal r is 0.
\* p_value is kept as the outcome of its comparison with 0.05.
linregress(x, y) ==
    LET n == Len(x)
        D == Lcm(y)
        Y == [i \in 1..n |-> y[i].num * (D \div y[i].den)]
        sx == SumSeq(x)
        sY == SumSeq(Y)
        Sxx == n * SumSeq([i \in 1..n |-> x[i] * x[i]]) - sx * sx
        Sxy == n * SumSeq([i \in 1..n |-> x[i] * Y[i]]) - sx * sY
        Syy == n * SumSeq([i \in 1..n |-> Y[i] * Y[i]]) - sY * sY
        r2 == IF Syy = 0 THEN F(0) ELSE Frac(Sxy * Sxy, Sxx * Syy)
    IN  [slope |-> Frac(Sxy, D * Sxx),
         r_squared |-> r2,
         p_value |->
            [below05 |->
                IF n = 2 THEN Y[1] # Y[2]
                ELSE r2.num * CriticalR2(n).den > CriticalR2(n).num * r2.den]]

\* a slip: the first value stands where the last one belongs in the quotient
PctChangeOfLast(first_value, last_value) ==
    IF last_value.num # 0
    THEN FMulInt(FDiv(FSub(last_value, first_value), last_value), 100)
    ELSE F(0)

\* main.py:707-710
PctChange(first_value, last_value) ==
    IF first_value.num # 0
    THEN FMulInt(FDiv(FSub(last_value, first_value), first_value), 100)
    ELSE F(0)

\* a slip: the direction follows the slope whatever the p-value
DirectionBySlope(p_value, slope) ==
    IF slope.num > 0 THEN "increasing" ELSE "decreasing"

\* main.py:712-722
Direction(p_value, slope) ==
    IF p_value.below05
    THEN IF slope.num > 0 THEN "increasing" ELSE "decreasing"
    ELSE "stable"

\* groupby('year')[value_col].mean().reset_index().sort_values('year') of
\* the rows of one pollutant: <<year, mean>> per year
YearlyAvg(rows, value_col) ==
    LET years == SortedSeq({rows[i].year : i \in 1..Len(rows)})
    IN  [k \in 1..Len(years) |->
            <<years[k],
              SeriesMean(Column(SelectSeq(rows, LAMBDA r : r.year = years[k]),
                                value_col))>>]

\* main.py:686-737: the entry of one pollutant, <<>> when it is skipped
TrendOf(df_display, value_col, pollutant) ==
    LET pollutant_df == SelectSeq(df_display.rows, LAMBDA r : r.pollutant = pollutant)
        yearly_avg == YearlyAvg(pollutant_df, value_col)
        valid_data == SelectSeq(yearly_avg, LAMBDA yv : ~yv[2].nan)
        years_clean == [i \in 1..Len(valid_data) |-> valid_data[i][1]]
        values_clean == [i \in 1..Len(valid_data) |-> valid_data[i][2]]
        reg == linregress(years_clean, values_clean)
    IN  IF Len(yearly_avg) < 2 \/ Len(valid_data) < 2 THEN <<>>
        ELSE << [pollutant |-> pollutant,
                 years |-> years_clean,
                 values |-> values_clean,
                 slope |-> reg.slope,
                 r_squared |-> reg.r_squared,
                 p_value |-> reg.p_value,
                 significant |-> reg.p_value.below05,
                 direction |-> Direction(reg.p_value, reg.slope),
                 pct_change |-> PctChange(values_clean[1],
                                          values_clean[Len(values_clean)]),
                 first_year |-> years_clean[1],
                 last_year |-> years_clean[Len(years_clean)]] >>

RECURSIVE Concat(_)
Concat(ss) == IF ss = <<>> THEN <<>> ELSE Head(ss) \o Concat(Tail(ss))

\* a slip: a pollutant that is skipped fails the whole request
get_trend_analysis_fail_fast(df, request) ==
    LET v == Views(df, request)
        pollutants == Unique(v.display.rows, "pollutant")
    IN  IF Len(v.filtered.rows) = 0 THEN NoDataError
        ELSE IF "year" \notin v.display.columns
        THEN [error |-> "Year data not available for trend analysis"]
        ELSE IF \E k \in 1..Len(pollutants) :
                    TrendOf(v.display, v.value_col, pollutants[k]) = <<>>
        THEN [error |-> "Error in trend analysis"]
        ELSE [trends |-> Concat([k \in 1..Len(pollutants) |->
                                    TrendOf(v.display, v.value_col, pollutants[k])])]

\* main.py:659-747
get_trend_analysis(df, request) ==
    LET v == Views(df, request)
        pollutants == Unique(v.display.rows, "pollutant")
    IN  IF Len(v.filtered.rows) = 0 THEN NoDataError
        ELSE IF "year" \notin v.display.columns
        THEN [error |-> "Year data not available for trend analysis"]
        ELSE [trends |-> Concat([k \in 1..Len(pollutants) |->
                                    TrendOf(v.display, v.value_col, pollutants[k])])]

(***************************************************************************)
(* No analytics request.                                                   *)
(***************************************************************************)
IdleRequest == [date_range |-> NoList, pollutants |-> NoList,
                boroughs |-> NoList, exclude_outliers |-> TRUE,
                agg_level |-> "Season"]

AnalyticsIdle ==
    /\ hDf = NoTable
    /\ hOp = "none"
    /\ hReq = IdleRequest
    /\ hOut = [op |-> "none"]
    /\ hPc = "idle"

\* no name-normalizer call
NormIdle == nIn = <<>> /\ nOut = [site |-> "none"]

\* the callers that may be inside load_data() at the same time
NumCallers == 2

Callers == 1..NumCallers

\* no caller has entered load_data()
CallersIdle ==
    /\ tPc = [t \in Callers |-> "idle"]
    /\ tFile = [t \in Callers |-> 0]
    /\ tDf = [t \in Callers |-> NoTable]
    /\ tRet = [t \in Callers |-> NoTable]

(***************************************************************************)
(* Dataset Accessor: load_data() and the process-wide _data_cache.         *)
(***************************************************************************)
\* possible_paths, in order: PARQUET_PATH under the project root, then the
\* relative path and Path.cwd() / ..., which both name the file under the
\* working directory (main.py:55-59)
PossiblePaths == <<"project", "cwd", "cwd">>

\* the date column as the parquet file stores it
RawDate(d) == <<"raw", d>>

\* df['date'] = pd.to_datetime(df['date']): main.py:73-74
ToDatetime(df) ==
    IF "date" \in df.columns
    THEN [df EXCEPT !.rows = [i \in 1..Len(df.rows) |->
                                [df.rows[i] EXCEPT !.date = @[2]]]]
    ELSE df

NoFile == [exists |-> FALSE, df |-> NoTable]
NoCache == [loaded |-> FALSE, df |-> NoTable]

\* a slip: the cache is not consulted, every call searches the paths again
load_data_uncached(c, fs) ==
    LET existing == {i \in 1..Len(PossiblePaths) : fs[PossiblePaths[i]].exists}
    IN  IF existing = {}
        THEN [cache |-> c, raised |-> "FileNotFoundError", read |-> 0, df |-> NoTable]
        ELSE LET i == CHOOSE k \in existing : \A o \in existing : k <= o
                 df == ToDatetime(fs[PossiblePaths[i]].df)
             IN  [cache |-> [loaded |-> TRUE, df |-> df], raised |-> None,
                  read |-> i, df |-> df]

\* load_data(): main.py:49-77.  The result: the new cache, the exception
\* raised (if any), the index of the path read (0: no file read) and the
\* table returned, which is the cached object itself.
load_data(c, fs) ==
    IF c.loaded
    THEN [cache |-> c, raised |-> None, read |-> 0, df |-> c.df]
    ELSE LET existing == {i \in 1..Len(PossiblePaths) : fs[PossiblePaths[i]].exists}
         IN  IF existing = {}
             THEN [cache |-> c, raised |-> "FileNotFoundError", read |-> 0,
                   df |-> NoTable]
             ELSE LET i == CHOOSE k \in existing : \A o \in existing : k <= o
                      df == ToDatetime(fs[PossiblePaths[i]].df)
                  IN  [cache |-> [loaded |-> TRUE, df |-> df], raised |-> None,
                       read |-> i, df |-> df]

(***************************************************************************)
(* Strings.  Where a handler looks inside a label, the label is the        *)
(* sequence of its characters; Spelling gives it for the labels the        *)
(* tables of the model hold as strings.                                    *)
(***************************************************************************)
LowerCase == <<"a", "b", "c", "d", "e", "f", "g", "h", "i", "j", "k", "l", "m",
               "n", "o", "p", "q", "r", "s", "t", "u", "v", "w", "x", "y", "z">>
UpperCase == <<"A", "B", "C", "D", "E", "F", "G", "H", "I", "J", "K", "L", "M",
               "N", "O", "P", "Q", "R", "S", "T", "U", "V", "W", "X", "Y", "Z">>

\* str.upper()
upper(s) ==
    [i \in 1..Len(s) |->
        IF \E k \in 1..Len(LowerCase) : LowerCase[k] = s[i]
        THEN UpperCase[CHOOSE k \in 1..Len(LowerCase) : LowerCase[k] = s[i]]
        ELSE s[i]]

\* pat in s, for strings
In(pat, s) ==
    \E i \in 1..(Len(s) - Len(pat) + 1) : SubSeq(s, i, i + Len(pat) - 1) = pat

\* the length a long label is cut to: main.py:430
ShortLen == 15

\* str.lower()
lower(s) ==
    [i \in 1..Len(s) |->
        IF \E k \in 1..Len(UpperCase) : UpperCase[k] = s[i]
        THEN LowerCase[CHOOSE k \in 1..Len(UpperCase) : UpperCase[k] = s[i]]
        ELSE s[i]]

Spelling ==
    [l \in {"PM2.5", "O3", "Annual vehicle miles traveled", "Truck Miles",
            "Nitrogen dioxide (NO2)", "Nitrogen dioxid", "Vehicle Miles"} |->
        CASE l = "PM2.5" -> <<"P", "M", "2", ".", "5">>
          [] l = "O3" -> <<"O", "3">>
          [] l = "Annual vehicle miles traveled" ->
               <<"A", "n", "n", "u", "a", "l", " ", "v", "e", "h", "i", "c", "l", "e",
                 " ", "m", "i", "l", "e", "s", " ", "t", "r", "a", "v", "e", "l", "e", "d">>
          [] l = "Truck Miles" ->
               <<"T", "r", "u", "c", "k", " ", "M", "i", "l", "e", "s">>
          [] l = "Nitrogen dioxide (NO2)" ->
               <<"N", "i", "t", "r", "o", "g", "e", "n", " ", "d", "i", "o", "x", "i",
                 "d", "e", " ", "(", "N", "O", "2", ")">>
          [] l = "Nitrogen dioxid" ->
               <<"N", "i", "t", "r", "o", "g", "e", "n", " ", "d", "i", "o", "x", "i",
                 "d">>
          [] l = "Vehicle Miles" ->
               <<"V", "e", "h", "i", "c", "l", "e", " ", "M", "i", "l", "e", "s">>]

\* the string spelled by a sequence of characters
Label(chars) == CHOOSE l \in DOMAIN Spelling : Spelling[l] = chars

\* a slip: the label is searched as it is spelled, without lower()
IsVehicleCaseSensitive(chars) ==
    \/ In(<<"v", "e", "h", "i", "c", "l", "e">>, chars)
    \/ In(<<"t", "r", "u", "c", "k">>, chars)

\* 'vehicle' in pollutant_str or 'truck' in pollutant_str, with
\* pollutant_str = str(pollutant).lower(): main.py:348-349, 427-428
IsVehicle(chars) ==
    \/ In(<<"v", "e", "h", "i", "c", "l", "e">>, lower(chars))
    \/ In(<<"t", "r", "u", "c", "k">>, lower(chars))

VehicleMiles == <<"V", "e", "h", "i", "c", "l", "e", " ", "M", "i", "l", "e", "s">>

\* normalize_pollutant_for_heatmap on the characters of a label:
\* main.py:347-351
NormalizeForHeatmap(chars) ==
    IF IsVehicle(chars) THEN VehicleMiles ELSE chars

\* normalize_pollutant_name on the characters of a label: main.py:426-430
NormalizeName(chars) ==
    IF IsVehicle(chars) THEN VehicleMiles
    ELSE IF Len(chars) > ShortLen THEN SubSeq(chars, 1, ShortLen) ELSE chars

\* pollutant_short_names, as pairs <<key, value>>: app.py:639-649
pollutant_short_names ==
    {<<<<"P", "M", "2", ".", "5">>,
       <<"P", "M", "2", ".", "5">>>>,
     <<<<"N", "O", "2">>,
       <<"N", "O", "2">>>>,
     <<<<"O", "3">>,
       <<"O", "3">>>>,
     <<<<"F", "i", "n", "e", " ", "p", "a", "r", "t", "i", "c", "l", "e",
       "s", " ", "(", "P", "M", " ", "2", ".", "5", ")">>,
       <<"P", "M", "2", ".", "5">>>>,
     <<<<"N", "i", "t", "r", "o", "g", "e", "n", " ", "d", "i", "o", "x",
       "i", "d", "e", " ", "(", "N", "O", "2", ")">>,
       <<"N", "O", "2">>>>,
     <<<<"O", "z", "o", "n", "e", " ", "(", "O", "3", ")">>,
       <<"O", "3">>>>,
     <<<<"A", "n", "n", "u", "a", "l", " ", "v", "e", "h", "i", "c", "l",
       "e", " ", "m", "i", "l", "e", "s", " ", "t", "r", "a", "v",
       "e", "l", "e", "d">>,
       <<"V", "e", "h", "i", "c", "l", "e", " ", "M", "i", "l", "e", "s">>>>,
     <<<<"A", "n", "n", "u", "a", "l", " ", "v", "e", "h", "i", "c", "l",
       "e", " ", "m", "i", "l", "e", "s", " ", "t", "r", "a", "v",
       "e", "l", "e", "d", " ", "(", "c", "a", "r", "s", ")">>,
       <<"V", "e", "h", "i", "c", "l", "e", " ", "M", "i", "l", "e", "s">>>>,
     <<<<"A", "n", "n", "u", "a", "l", " ", "v", "e", "h", "i", "c", "l",
       "e", " ", "m", "i", "l", "e", "s", " ", "t", "r", "a", "v",
       "e", "l", "e", "d", " ", "(", "t", "r", "u", "c", "k", "s",
       ")">>,
       <<"V", "e", "h", "i", "c", "l", "e", " ", "M", "i", "l", "e", "s">>>>}

\* normalize_pollutant_name of the dashboard: app.py:652-663
NormalizeNameApp(chars) ==
    IF \E e \in pollutant_short_names : e[1] = chars
    THEN (CHOOSE e \in pollutant_short_names : e[1] = chars)[2]
    ELSE NormalizeName(chars)

(***************************************************************************)
(* The column names of the dashboard's heatmap: app.py:489-527.            *)
(***************************************************************************)
\* the characters of the labels in code point order
CodePoints ==
    <<" ", "(", ")", "+", "-", ".", "0", "1", "2", "3", "4", "5", "6", "7",
      "8", "9", "A", "B", "C", "D", "E", "F", "G", "H", "I", "J", "K", "L", "M",
      "N", "O", "P", "Q", "R", "S", "T", "U", "V", "W", "X", "Y", "Z", "a", "b",
      "c", "d", "e", "f", "g", "h", "i", "j", "k", "l", "m", "n", "o", "p", "q",
      "r", "s", "t", "u", "v", "w", "x", "y", "z">>

ord(c) == CHOOSE k \in 1..Len(CodePoints) : CodePoints[k] = c

\* s < t, for strings
RECURSIVE StrLess(_, _)
StrLess(s, t) ==
    IF t = <<>> THEN FALSE
    ELSE IF s = <<>> THEN TRUE
    ELSE IF Head(s) # Head(t) THEN ord(Head(s)) < ord(Head(t))
    ELSE StrLess(Tail(s), Tail(t))

\* the strings of a set in increasing order
RECURSIVE SortedStrs(_)
SortedStrs(S) ==
    IF S = {} THEN <<>>
    ELSE LET least == CHOOSE s \in S : \A t \in S \ {s} : StrLess(s, t)
         IN  <<least>> \o SortedStrs(S \ {least})

\* the columns of the pivot: the distinct values of pollutant_norm, sorted
\* (app.py:489-493)
PivotColumns(pollutants) ==
    SortedStrs({NormalizeForHeatmap(pollutants[i]) : i \in 1..Len(pollutants)})

\* the length get_short_name_unique cuts a label to: app.py:511
HeatShortLen == 25

\* get_short_name_unique: app.py:499-511
get_short_name_unique(pollutant) ==
    LET short_names == {<<"P", "M", "2", ".", "5">>, <<"N", "O", "2">>, <<"O", "3">>,
                        VehicleMiles}
    IN  IF pollutant \in short_names THEN pollutant
        ELSE IF Len(pollutant) > HeatShortLen
             THEN SubSeq(pollutant, 1, HeatShortLen)
             ELSE pollutant

\* str(n) for n >= 0
RECURSIVE str(_)
str(n) ==
    LET digit == <<"0", "1", "2", "3", "4", "5", "6", "7", "8", "9">>[(n % 10) + 1]
    IN  IF n < 10 THEN <<digit>> ELSE str(n \div 10) \o <<digit>>

\* a slip: the names are left as they are
unique_columns_bare(columns_list) == columns_list

\* the loop over columns_list; seen[col] is the number of earlier
\* occurrences of col: app.py:517-526
unique_columns(columns_list) ==
    [i \in 1..Len(columns_list) |->
        LET col == columns_list[i]
            seen == Cardinality({j \in 1..(i - 1) : columns_list[j] = col})
        IN  IF seen > 0
            THEN col \o <<" ", "(">> \o str(seen) \o <<")">>
            ELSE col]

\* heatmap_data.columns after app.py:514 and after app.py:527
HeatmapColumns(pollutants) ==
    LET columns == PivotColumns(pollutants)
    IN  unique_columns([i \in 1..Len(columns) |-> get_short_name_unique(columns[i])])

(***************************************************************************)
(* Tables as objects.  During one request the handler holds references to  *)
(* DataFrame objects: h is the sequence of the objects alive, a reference  *)
(* is an index into h, and object 1 is the table load_data() returned,     *)
(* that is the cached object.  A handler state is [h, ref].                *)
(***************************************************************************)
TableOf(s) == s.h[s.ref]

\* df.copy(): a new object with the same contents
CopyObj(s) == [h |-> Append(s.h, TableOf(s)), ref |-> Len(s.h) + 1]

\* df[mask]: a new object with the selected rows
SelectObj(s, rows) ==
    [h |-> Append(s.h, [TableOf(s) EXCEPT !.rows = rows]), ref |-> Len(s.h) + 1]

\* the result of a groupby/aggregation: a new object
NewObj(s, table) == [h |-> Append(s.h, table), ref |-> Len(s.h) + 1]

\* df[col] = vals: writes the column (one value per row) into the object
\* itself
SetColumn(s, col, vals) ==
    [s EXCEPT !.h[s.ref] =
        [columns |-> @.columns \cup {col},
         rows |-> [i \in 1..Len(@.rows) |->
                     [f \in (DOMAIN @.rows[i]) \cup {col} |->
                         IF f = col THEN vals[i] ELSE @.rows[i][f]]]]]

\* the rows of the table a handler state refers to
RowsOf(s) == TableOf(s).rows

\* a slip: df_filtered = df, without the copy
filter_data_nocopy(s, req) ==
    LET c == s
        d == IF Truthy(req.date_range) /\ Len(req.date_range.list) = 2
             THEN SelectObj(c, DateFilter("backend", TableOf(c).rows, req.date_range).rows)
             ELSE c
        p == IF Truthy(req.pollutants)
             THEN SelectObj(d, PollutantFilter(TableOf(d).rows, req.pollutants))
             ELSE d
        b == IF Truthy(req.boroughs) /\ ~InList("All", req.boroughs)
             THEN SelectObj(p, BoroughFilter(TableOf(p).rows, req.boroughs))
             ELSE p
    IN  IF req.exclude_outliers /\ "is_outlier" \in TableOf(b).columns
        THEN SelectObj(b, OutlierFilter(TableOf(b).columns, TableOf(b).rows,
                                        req.exclude_outliers))
        ELSE b

\* filter_data on objects (main.py:115-139): df_filtered starts as a copy of
\* df, and every filter that applies rebinds it to a new object
filter_data_obj(s, req) ==
    LET c == CopyObj(s)
        d == IF Truthy(req.date_range) /\ Len(req.date_range.list) = 2
             THEN SelectObj(c, DateFilter("backend", TableOf(c).rows, req.date_range).rows)
             ELSE c
        p == IF Truthy(req.pollutants)
             THEN SelectObj(d, PollutantFilter(TableOf(d).rows, req.pollutants))
             ELSE d
        b == IF Truthy(req.boroughs) /\ ~InList("All", req.boroughs)
             THEN SelectObj(p, BoroughFilter(TableOf(p).rows, req.boroughs))
             ELSE p
    IN  IF req.exclude_outliers /\ "is_outlier" \in TableOf(b).columns
        THEN SelectObj(b, OutlierFilter(TableOf(b).columns, TableOf(b).rows,
                                        req.exclude_outliers))
        ELSE b

\* aggregate_data on objects (main.py:142-177): 'Raw' (or any other level)
\* returns df itself, the three levels return a new table
aggregate_data_obj(s, agg_level) ==
    IF agg_level \notin {"Season", "Year", "Month"}
    THEN s
    ELSE NewObj(s, aggregate_data(TableOf(s), agg_level))

\* the df_display of the handlers: aggregate_data(df_filtered, agg_level), or
\* df_filtered.copy() at 'Raw' (main.py:219-224 and its copies)
display_obj(s, agg_level) ==
    IF agg_level # "Raw" THEN aggregate_data_obj(s, agg_level) ELSE CopyObj(s)

\* df[df['borough'] != 'Unknown'].copy()
KnownBoroughObj(s) ==
    CopyObj(SelectObj(s, SelectSeq(TableOf(s).rows, LAMBDA r : r.borough # "Unknown")))

\* the labels of the model that contain 'vehicle' or 'truck'
VehicleLabels == {l \in DOMAIN Spelling : IsVehicle(Spelling[l])}

\* normalize_pollutant_for_heatmap: main.py:347-351
normalize_pollutant_for_heatmap(pollutant) ==
    IF pollutant \in VehicleLabels THEN "Vehicle Miles" ELSE pollutant

\* the time_key of a row: main.py:811
TimeKey(r) == <<DateStr(r.date), IF r.borough = NaN THEN "All" ELSE r.borough>>

\* the result of a groupby in a view builder: a new table, of which this
\* model keeps the columns (its values are the subject of the view models)
Derived(columns) == [columns |-> columns, rows |-> <<>>]

(***************************************************************************)
(* get_correlation_analysis: POST /api/correlation/analysis.  A            *)
(* coefficient is NaN or sign * sqrt(sq) with sq an exact fraction; ulp    *)
(* is the rounding error of the float result where it matters: +1 when     *)
(* the float is one step larger in magnitude, -1 one step smaller, 0 when  *)
(* the float is that value.                                                *)
(***************************************************************************)
NaNCoef == [nan |-> TRUE, sign |-> 0, sq |-> F(0), ulp |-> 0]

ZeroCoef == [nan |-> FALSE, sign |-> 0, sq |-> F(0), ulp |-> 0]

\* the elements of a set in some fixed order
RECURSIVE SeqOf(_)
SeqOf(S) ==
    IF S = {} THEN <<>>
    ELSE LET m == CHOOSE x \in S : TRUE
         IN  <<m>> \o SeqOf(S \ {m})

\* the strings of a set in alphabetical order
RECURSIVE AlphaSorted(_)
AlphaSorted(S) ==
    IF S = {} THEN <<>>
    ELSE LET m == CHOOSE x \in S : \A y \in S : AlphaRank(x) <= AlphaRank(y)
         IN  <<m>> \o AlphaSorted(S \ {m})

\* main.py:809-835: the time_key of a row
CorrKey(df, r) ==
    IF "date" \in df.columns
    THEN IF "borough" \in df.columns /\ AnyBorough(df)
         THEN TimeKey(r)
         ELSE <<DateStr(r.date)>>
    ELSE IF "borough" \in df.columns /\ AnyBorough(df)
         THEN <<r.year, r.season, IF r.borough = NaN THEN "All" ELSE r.borough>>
         ELSE <<r.year, r.season>>

\* pivot_table(index='time_key', columns='pollutant', values='value',
\* aggfunc='mean'): the cell of a time key and a pollutant, NaN if no row
\* has a value there
PivotCell(df, key, pollutant) ==
    SeriesMean(Column(SelectSeq(df.rows,
                                LAMBDA r : CorrKey(df, r) = key
                                           /\ r.pollutant = pollutant),
                      "value"))

\* pivot_df after dropna(axis=1, thresh=2).dropna(axis=0, thresh=2): the
\* columns with at least 2 values, then the rows with at least 2 values in
\* those columns
Pivot(df) ==
    LET index == {CorrKey(df, df.rows[i]) : i \in 1..Len(df.rows)}
        cell == [kp \in index \X {df.rows[i].pollutant : i \in 1..Len(df.rows)} |->
                    PivotCell(df, kp[1], kp[2])]
        columns == {p \in {df.rows[i].pollutant : i \in 1..Len(df.rows)} :
                       Cardinality({k \in index : ~cell[<<k, p>>].nan}) >= 2}
    IN  [cell |-> cell,
         columns |-> columns,
         index |-> {k \in index :
                      Cardinality({p \in columns : ~cell[<<k, p>>].nan}) >= 2}]

\* the Pearson coefficient of two sequences of fractions of equal length,
\* as pandas computes it: NaN with fewer than min_periods = 2 points or
\* with a zero variance
Pearson(x, y, ulp) ==
    LET n == Len(x)
        Dx == Lcm(x)
        Dy == Lcm(y)
        X == [i \in 1..n |-> x[i].num * (Dx \div x[i].den)]
        Y == [i \in 1..n |-> y[i].num * (Dy \div y[i].den)]
        Sxx == n * SumSeq([i \in 1..n |-> X[i] * X[i]]) - SumSeq(X) * SumSeq(X)
        Syy == n * SumSeq([i \in 1..n |-> Y[i] * Y[i]]) - SumSeq(Y) * SumSeq(Y)
        Sxy == n * SumSeq([i \in 1..n |-> X[i] * Y[i]]) - SumSeq(X) * SumSeq(Y)
        sq == Frac(Sxy * Sxy, Sxx * Syy)
    IN  IF n < 2 \/ Sxx = 0 \/ Syy = 0 THEN NaNCoef
        ELSE [nan |-> FALSE,
              sign |-> IF Sxy > 0 THEN 1 ELSE IF Sxy < 0 THEN -1 ELSE 0,
              sq |-> sq,
              \* covxy / sqrt(vx * vy) is exactly 1.0 for x = y; elsewhere
              \* a coefficient of 1 or -1 can come out one ulp off
              ulp |-> IF sq = F(1) /\ x # y THEN ulp ELSE 0]

\* pivot_df.corr(method='pearson', min_periods=2) at two columns: pairwise
\* deletion
CorrOf(pivot_df, p, q, ulp) ==
    LET keys == SeqOf({k \in pivot_df.index :
                          /\ ~pivot_df.cell[<<k, p>>].nan
                          /\ ~pivot_df.cell[<<k, q>>].nan})
    IN  Pearson([i \in 1..Len(keys) |-> pivot_df.cell[<<keys[i], p>>]],
                [i \in 1..Len(keys) |-> pivot_df.cell[<<keys[i], q>>]],
                ulp)

\* |c| > 1
Exceeds1(c) == ~c.nan /\ (FLess(F(1), c.sq) \/ (c.sq = F(1) /\ c.ulp > 0))

\* a slip: no clamp
NoClip(c) == c

\* clip(lower=-1.0, upper=1.0) and max(-1.0, min(1.0, c)); NaN stays NaN
Clip(c) == IF Exceeds1(c) THEN [c EXCEPT !.sq = F(1), !.ulp = 0] ELSE c

\* fillna(0)
FillNa0(c) == IF c.nan THEN ZeroCoef ELSE c

\* abs(a) > abs(b)
AbsGreater(a, b) ==
    \/ FLess(b.sq, a.sq)
    \/ a.sq = b.sq /\ a.ulp > b.ulp

\* abs(c) > num/100
AbsAbove(c, num) == c.sq.num * 100 * 100 > num * num * c.sq.den

\* main.py:861
Strength(c) ==
    IF AbsAbove(c, 70) THEN "strong"
    ELSE IF AbsAbove(c, 40) THEN "moderate"
    ELSE "weak"

\* a slip: the list is left in the order of the loop
SortSkipped(s) == s

\* list.sort(key=abs(correlation), reverse=True): stable
RECURSIVE SortByAbs(_)
SortByAbs(s) ==
    IF s = <<>> THEN <<>>
    ELSE LET i == CHOOSE i \in 1..Len(s) :
                     /\ \A j \in 1..Len(s) : ~AbsGreater(s[j].correlation, s[i].correlation)
                     /\ \A j \in 1..(i - 1) : AbsGreater(s[i].correlation, s[j].correlation)
         IN  <<s[i]>> \o SortByAbs(SubSeq(s, 1, i - 1) \o SubSeq(s, i + 1, Len(s)))

\* main.py:848-863: the entry of columns i < j, <<>> for NaN
PairOf(matrix, pollutants, i, j) ==
    LET corr_value == matrix[pollutants[i]][pollutants[j]]
    IN  IF i < j /\ ~corr_value.nan
        THEN << [pollutant1 |-> pollutants[i], pollutant2 |-> pollutants[j],
                 correlation |-> Clip(corr_value),
                 strength |-> Strength(Clip(corr_value))] >>
        ELSE <<>>

\* the rounding errors of the coefficients: one per pair of pollutants of
\* the dataset
Ulps(df) ==
    LET present == {df.rows[i].pollutant : i \in 1..Len(df.rows)}
    IN  [{pq \in present \X present : AlphaRank(pq[1]) < AlphaRank(pq[2])}
            -> {-1, 0, 1}]

\* main.py:792-876, with the rounding errors ulp of the coefficients
get_correlation_analysis(df, request, ulp) ==
    LET df_filtered == filter_data("backend", df, request).df
        pivot_df == Pivot(df_filtered)
        pollutants == AlphaSorted(pivot_df.columns)
        n == Len(pollutants)
        raw == [p \in pivot_df.columns |->
                  [q \in pivot_df.columns |->
                      CorrOf(pivot_df, p, q,
                             IF p = q THEN 0
                             ELSE IF AlphaRank(p) < AlphaRank(q)
                             THEN ulp[<<p, q>>] ELSE ulp[<<q, p>>])]]
        correlation_matrix ==
            [p \in DOMAIN raw |-> [q \in DOMAIN raw |-> Clip(raw[p][q])]]
    IN  IF Len(df_filtered.rows) = 0 THEN NoDataError
        ELSE IF "date" \notin df_filtered.columns
                /\ ~({"year", "season"} \subseteq df_filtered.columns)
        THEN [error |-> "Insufficient time dimension for correlation analysis"]
        ELSE [correlation_matrix |->
                 [p \in DOMAIN raw |->
                     [q \in DOMAIN raw |-> Clip(FillNa0(correlation_matrix[p][q]))]],
              pollutants |-> pollutants,
              correlations |->
                 SortByAbs(Concat([k \in 1..(n * n) |->
                                     PairOf(correlation_matrix, pollutants,
                                            ((k - 1) \div n) + 1, ((k - 1) % n) + 1)]))]

(***************************************************************************)
(* get_heatmap_data: POST /api/heatmap/data                                *)
(***************************************************************************)
\* DataFrame.round(2) of a cell: the nearest multiple of 0.01, ties to even
Round2(c) ==
    IF c.nan THEN c
    ELSE LET n == c.num * 100
             q == n \div c.den
             r == n % c.den
         IN  Frac(IF 2 * r < c.den THEN q
                  ELSE IF 2 * r > c.den THEN q + 1
                  ELSE IF q % 2 = 0 THEN q ELSE q + 1,
                  100)

\* a slip: the index is left in the alphabetical order of the pivot
borough_order_alphabetical ==
    <<"Bronx", "Brooklyn", "Manhattan", "Queens", "Staten Island">>

\* main.py:363
borough_order == <<"Manhattan", "Brooklyn", "Queens", "Bronx", "Staten Island">>

\* main.py:342-369
get_heatmap_data(df, request) ==
    LET df_filtered == filter_data("backend", df, request).df
        heatmap_df == SelectSeq(df_filtered.rows, LAMBDA r : r.borough # "Unknown")
        pollutant_norm(r) == normalize_pollutant_for_heatmap(r.pollutant)
        \* groupby(['borough', 'pollutant_norm']) drops the NaN boroughs
        grouped == SelectSeq(heatmap_df, LAMBDA r : r.borough # NaN)
        index == {grouped[i].borough : i \in 1..Len(grouped)}
        columns == {pollutant_norm(grouped[i]) : i \in 1..Len(grouped)}
        heatmap_pivot ==
            [b \in index |->
                [p \in columns |->
                    Round2(SeriesMean(Column(
                        SelectSeq(grouped,
                                  LAMBDA r : r.borough = b /\ pollutant_norm(r) = p),
                        "value")))]]
        order == SelectSeq(borough_order, LAMBDA b : b \in index)
    IN  IF Len(heatmap_df) = 0
        THEN [data |-> <<>>, message |-> "No data available for heatmap"]
        ELSE [data |-> [b \in {order[i] : i \in 1..Len(order)} |-> heatmap_pivot[b]],
              boroughs |-> order,
              pollutants |-> columns,
              unit |-> IF "unit" \in df_filtered.columns
                       THEN df_filtered.rows[1].unit ELSE ""]

(***************************************************************************)
(* get_timeseries_data: POST /api/timeseries/data.  A date is the number   *)
(* yyyymm of its month; the label season + ' ' + year is the pair          *)
(* <<season, year>>, which compares as the string does.                    *)
(***************************************************************************)
\* main.py:402
season_to_month ==
    [Winter |-> 1, Spring |-> 3, Summer |-> 6, Fall |-> 9, Annual |-> 1]

\* year * 100 + season.map(season_to_month).fillna(1): main.py:403
SortKeyOf(year, season) ==
    year * 100 + (IF season \in DOMAIN season_to_month
                  THEN season_to_month[season] ELSE 1)

\* the order groupby puts the cells of a key column in
TsCellLess(col, a, b) ==
    IF col \in {"year", "date", "sort_key"} THEN a < b
    ELSE IF col = "date_str"
    THEN \/ AlphaRank(a[1]) < AlphaRank(b[1])
         \/ a[1] = b[1] /\ a[2] < b[2]
    ELSE AlphaRank(a) < AlphaRank(b)

TsKeyLess(cols, k1, k2) ==
    \E i \in 1..Len(cols) :
        /\ \A j \in 1..(i - 1) : k1[j] = k2[j]
        /\ k1[i] # k2[i]
        /\ TsCellLess(cols[i], k1[i], k2[i])

RECURSIVE TsSortKeys(_, _)
TsSortKeys(cols, keys) ==
    IF keys = {} THEN <<>>
    ELSE LET m == CHOOSE k \in keys : \A o \in keys \ {k} : TsKeyLess(cols, k, o)
         IN  <<m>> \o TsSortKeys(cols, keys \ {m})

\* a slip: a group keeps the value of its first row instead of the mean
GroupFirst(rows, cols, value_col) ==
    LET kept == SelectSeq(rows, LAMBDA r : \A j \in 1..Len(cols) :
                              cols[j] \in {"season", "pollutant", "pollutant_short",
                                          "borough"}
                                  => r[cols[j]] # NaN)
        keys == TsSortKeys(cols, {KeyOf(kept[i], cols) : i \in 1..Len(kept)})
    IN  [i \in 1..Len(keys) |->
            [c \in {cols[j] : j \in 1..Len(cols)} \cup {value_col} |->
                IF c = value_col
                THEN SelectSeq(kept, LAMBDA r : KeyOf(r, cols) = keys[i])[1][value_col]
                ELSE keys[i][CHOOSE j \in 1..Len(cols) : cols[j] = c]]]

\* groupby(cols)[value_col].mean() with the keys as columns: one row for
\* every key, in the order of the keys; rows with a NaN label are dropped
GroupMean(rows, cols, value_col) ==
    LET labelled(r) == \A j \in 1..Len(cols) :
                          cols[j] \in {"season", "pollutant", "pollutant_short",
                                      "borough"}
                              => r[cols[j]] # NaN
        kept == SelectSeq(rows, labelled)
        keys == TsSortKeys(cols, {KeyOf(kept[i], cols) : i \in 1..Len(kept)})
    IN  [i \in 1..Len(keys) |->
            [c \in {cols[j] : j \in 1..Len(cols)} \cup {value_col} |->
                IF c = value_col
                THEN SeriesMean(Column(
                         SelectSeq(kept, LAMBDA r : KeyOf(r, cols) = keys[i]),
                         value_col))
                ELSE keys[i][CHOOSE j \in 1..Len(cols) : cols[j] = c]]]

\* a slip: the rows are left in the order they came in
sort_values_skipped(rows, col) == rows

\* DataFrame.sort_values(col) on a numeric column; rows with equal cells
\* keep their order, as the sort of a short table does
sort_values(rows, col) ==
    LET before(i, j) == \/ rows[i][col] < rows[j][col]
                        \/ rows[i][col] = rows[j][col] /\ i < j
        rank(i) == Cardinality({j \in 1..Len(rows) : before(j, i)}) + 1
    IN  [k \in 1..Len(rows) |->
            rows[CHOOSE i \in 1..Len(rows) : rank(i) = k]]

\* the rows with one more (or one rewritten) column
Assign(rows, col, cells) ==
    [i \in 1..Len(rows) |->
        [c \in (DOMAIN rows[i]) \cup {col} |->
            IF c = col THEN cells[i] ELSE rows[i][c]]]

\* pollutant[:15] if len(str(pollutant)) > 15 else pollutant: main.py:430
Truncate15(pollutant) ==
    IF pollutant # NaN /\ Len(Spelling[pollutant]) > ShortLen
    THEN Label(SubSeq(Spelling[pollutant], 1, ShortLen))
    ELSE pollutant

\* normalize_pollutant_name: main.py:426-430
normalize_pollutant_name(pollutant) ==
    IF pollutant \in VehicleLabels THEN "Vehicle Miles" ELSE Truncate15(pollutant)

\* ts_data before the short names are added: main.py:399-422
TsData(df_display, level, value_col) ==
    LET seasonal == GroupMean(df_display.rows, <<"season", "year", "pollutant">>,
                              value_col)
    IN  CASE level = "Season" ->
               sort_values(
                   Assign(Assign(seasonal, "sort_key",
                                 [i \in 1..Len(seasonal) |->
                                     SortKeyOf(seasonal[i].year, seasonal[i].season)]),
                          "date_str",
                          [i \in 1..Len(seasonal) |->
                              <<seasonal[i].season, seasonal[i].year>>]),
                   "sort_key")
          [] level = "Year" ->
               sort_values(GroupMean(df_display.rows, <<"year", "pollutant">>,
                                     value_col),
                           "year")
          [] level = "Month" ->
               sort_values(Assign(df_display.rows, "date",
                                  [i \in 1..Len(df_display.rows) |->
                                      df_display.rows[i].year * 100
                                          + df_display.rows[i].month]),
                           "date")
          [] OTHER ->
               sort_values(df_display.rows,
                           IF "date" \in df_display.columns
                           THEN "date" ELSE "timestamp")

\* x_col: main.py:405-422
XCol(df_display, level) ==
    CASE level = "Season" -> "date_str"
      [] level = "Year" -> "year"
      [] level = "Month" -> "date"
      [] OTHER -> IF "date" \in df_display.columns THEN "date" ELSE "timestamp"

\* main.py:375-446
get_timeseries_data(df, request) ==
    LET v == Views(df, request)
        value_col == v.value_col
        df_display == v.display
        level == request.agg_level
        x_col == XCol(df_display, level)
        ts_data == TsData(df_display, level, value_col)
        short == Assign(ts_data, "pollutant_short",
                        [i \in 1..Len(ts_data) |->
                            normalize_pollutant_name(ts_data[i].pollutant)])
    IN  IF Len(v.filtered.rows) = 0
        THEN [data |-> <<>>, message |-> "No data available for time series"]
        ELSE [data |-> IF level = "Season"
                       THEN sort_values(
                                GroupMean(short,
                                          <<x_col, "pollutant_short", "sort_key">>,
                                          value_col),
                                "sort_key")
                       ELSE GroupMean(short, <<x_col, "pollutant_short">>,
                                      value_col),
              x_col |-> x_col,
              value_col |-> value_col,
              unit |-> IF "unit" \in df_display.columns
                       THEN df_display.rows[1].unit ELSE ""]

(***************************************************************************)
(* get_kpis: POST /api/data/kpis, and the Key Metrics of the dashboard.    *)
(* The statistics are exact; the floats of the program round them.         *)
(***************************************************************************)
\* the cells that are not NaN, in increasing order
SortedCells(cells) ==
    LET ok == SelectSeq(cells, LAMBDA c : ~c.nan)
        before(i, j) == \/ FLess(ok[i], ok[j])
                        \/ ~FLess(ok[j], ok[i]) /\ i < j
        rank(i) == Cardinality({j \in 1..Len(ok) : before(j, i)}) + 1
    IN  [k \in 1..Len(ok) |-> ok[CHOOSE i \in 1..Len(ok) : rank(i) = k]]

\* Series.quantile(qnum / qden), linear interpolation between the two
\* nearest of the sorted cells; NaN if there is no cell
Quantile(cells, qnum, qden) ==
    LET v == SortedCells(cells)
        h == (Len(v) - 1) * qnum
        i == h \div qden
        g == h % qden
        d == FSub(v[i + 2], v[i + 1])
    IN  IF Len(v) = 0 THEN NaNF
        ELSE IF g = 0 THEN v[i + 1]
        ELSE FSum(<<v[i + 1], Frac(d.num * g, d.den * qden)>>)

\* <metric> if len(df_display) > 0 else 0: main.py:262-266
MetricOrZero(rows, metric) == IF Len(rows) > 0 THEN metric ELSE F(0)

\* the metrics of the value column: main.py:262-267, app.py:250-268
Metrics(df_display, value_col) ==
    LET rows == IF value_col \in df_display.columns THEN df_display.rows ELSE <<>>
        cells == Column(rows, value_col)
    IN  [mean |-> MetricOrZero(rows, SeriesMean(cells)),
         median |-> MetricOrZero(rows, Quantile(cells, 1, 2)),
         p25 |-> MetricOrZero(rows, Quantile(cells, 1, 4)),
         p75 |-> MetricOrZero(rows, Quantile(cells, 3, 4)),
         p95 |-> MetricOrZero(rows, Quantile(cells, 19, 20)),
         count |-> Len(df_display.rows)]

\* the response with the metrics and the unit: main.py:259-269
Kpis(df_display, value_col) ==
    LET m == Metrics(df_display, value_col)
    IN  [mean |-> m.mean, median |-> m.median, p25 |-> m.p25,
         p75 |-> m.p75, p95 |-> m.p95, count |-> m.count,
         unit |-> IF "unit" \in df_display.columns /\ Len(df_display.rows) > 0
                  THEN df_display.rows[1].unit ELSE ""]

\* a slip: the empty filter result is not answered apart
get_kpis_without_marker(df, request) ==
    LET v == Views(df, request)
    IN  Kpis(v.display, v.value_col)

\* main.py:237-269
get_kpis(df, request) ==
    LET v == Views(df, request)
    IN  IF Len(v.filtered.rows) = 0
        THEN NoDataError
        ELSE Kpis(v.display, v.value_col)

\* st.warning(...) and st.stop(): app.py:231-233
Stopped ==
    [stopped |-> TRUE,
     warning |-> "No data matches the selected filters. Please adjust your filters."]

\* the dashboard script from the filters to the Key Metrics: app.py:229-268
KeyMetrics(df, request) ==
    LET df_filtered == filter_data("app", df, request).df
        df_display == IF request.agg_level # "Raw"
                      THEN aggregate_data(df_filtered, request.agg_level)
                      ELSE df_filtered
        value_col == IF request.agg_level # "Raw" THEN "value_mean" ELSE "value"
    IN  IF Len(df_filtered.rows) = 0
        THEN Stopped
        ELSE Metrics(df_display, value_col)

(***************************************************************************)
(* The handlers as the tables they build and the columns they write.  Each *)
(* takes the handler state after load_data() and returns the final one.    *)
(***************************************************************************)
\* get_metadata: main.py:185-198 (reads df only)
MetadataObjs(s, req) == s

\* get_filtered_data: main.py:201-233
FilteredDataObjs(s, req) ==
    LET f == filter_data_obj(s, req)
    IN  IF Len(TableOf(f).rows) = 0 THEN f
        ELSE LET d == display_obj(f, req.agg_level)
             IN  IF "date" \in TableOf(d).columns
                 THEN SetColumn(d, "date",
                                [i \in 1..Len(RowsOf(d)) |-> DateStr(RowsOf(d)[i].date)])
                 ELSE SetColumn(d, "date", [i \in 1..Len(RowsOf(d)) |-> None])

\* get_kpis, export_data: main.py:236-269, 879-900
DisplayOnlyObjs(s, req) ==
    LET f == filter_data_obj(s, req)
    IN  IF Len(TableOf(f).rows) = 0 THEN f ELSE display_obj(f, req.agg_level)

\* get_map_data: main.py:281-325
MapDataObjs(s, req) ==
    LET m == KnownBoroughObj(filter_data_obj(s, req))
    IN  IF Len(TableOf(m).rows) = 0 THEN m
        ELSE NewObj(m, Derived({"borough", "avg_value"}))

\* get_heatmap_data: main.py:328-371
HeatmapObjs(s, req) ==
    LET m == KnownBoroughObj(filter_data_obj(s, req))
    IN  IF Len(TableOf(m).rows) = 0 THEN m
        ELSE NewObj(SetColumn(m, "pollutant_norm",
                              [i \in 1..Len(RowsOf(m)) |->
                                 normalize_pollutant_for_heatmap(RowsOf(m)[i].pollutant)]),
                    Derived({"borough", "pollutant_norm", "value"}))

\* get_timeseries_data: main.py:374-446
TimeseriesObjs(s, req) ==
    LET f == filter_data_obj(s, req)
    IN  IF Len(TableOf(f).rows) = 0 THEN f
        ELSE LET d == display_obj(f, req.agg_level)
                 ts == CASE req.agg_level = "Season" ->
                              NewObj(d, Derived({"season", "year", "pollutant",
                                                 "value_mean", "sort_key", "date_str"}))
                         [] req.agg_level = "Year" ->
                              NewObj(d, Derived({"year", "pollutant", "value_mean"}))
                         [] OTHER ->
                              SetColumn(CopyObj(d), "date",
                                        [i \in 1..Len(RowsOf(d)) |-> RowsOf(d)[i].date])
             IN  NewObj(SetColumn(ts, "pollutant_short",
                                  [i \in 1..Len(RowsOf(ts)) |-> RowsOf(ts)[i].pollutant]),
                        Derived({"pollutant_short"}))

\* get_comparison_data, get_trend_analysis: main.py:455-507, 658-747
\* (df_display, then one selected copy)
DisplaySelectObjs(s, req) ==
    LET f == filter_data_obj(s, req)
    IN  IF Len(TableOf(f).rows) = 0 THEN f
        ELSE LET d == display_obj(f, req.agg_level)
             IN  CopyObj(SelectObj(d, <<>>))

\* calculate_aqi_endpoint, get_seasonal_patterns: main.py:623-655, 750-788
\* (one selected copy of df_filtered per pollutant)
FilteredSelectObjs(s, req) ==
    LET f == filter_data_obj(s, req)
    IN  IF Len(TableOf(f).rows) = 0 THEN f
        ELSE CopyObj(SelectObj(f, <<>>))

\* get_correlation_analysis: main.py:791-876; time_key is written into
\* df_filtered itself
CorrelationObjs(s, req) ==
    LET f == filter_data_obj(s, req)
    IN  IF Len(TableOf(f).rows) = 0 THEN f
        ELSE IF "date" \in TableOf(f).columns
        THEN NewObj(SetColumn(f, "time_key",
                              [i \in 1..Len(RowsOf(f)) |-> TimeKey(RowsOf(f)[i])]),
                    Derived({"time_key"}))
        ELSE f

Endpoints == {"get_metadata", "get_filtered_data", "get_kpis", "get_map_data",
              "get_heatmap_data", "get_timeseries_data", "get_comparison_data",
              "calculate_aqi_endpoint", "get_trend_analysis",
              "get_seasonal_patterns", "get_correlation_analysis", "export_data"}

HandlerObjs(op, s, req) ==
    CASE op = "get_metadata" -> MetadataObjs(s, req)
      [] op = "get_filtered_data" -> FilteredDataObjs(s, req)
      [] op \in {"get_kpis", "export_data"} -> DisplayOnlyObjs(s, req)
      [] op = "get_map_data" -> MapDataObjs(s, req)
      [] op = "get_heatmap_data" -> HeatmapObjs(s, req)
      [] op = "get_timeseries_data" -> TimeseriesObjs(s, req)
      [] op \in {"get_comparison_data", "get_trend_analysis"} -> DisplaySelectObjs(s, req)
      [] op \in {"calculate_aqi_endpoint", "get_seasonal_patterns"} -> FilteredSelectObjs(s, req)
      [] op = "get_correlation_analysis" -> CorrelationObjs(s, req)

(***************************************************************************)
(* AQI scoring: calculate_aqi(pollutant, value, unit).  A pollutant label  *)
(* is the sequence of its characters.  A value is NaN or a decimal; x      *)
(* counts hundredths of the unit, so 12.1 is Dec(12, 10).  unit is never   *)
(* read by calculate_aqi.                                                  *)
(***************************************************************************)
Dec(whole, hundredths) == whole * 100 + hundredths

NaNValue == [nan |-> TRUE, x |-> 0]

Value(x) == [nan |-> FALSE, x |-> x]

\* main.py:513-557; a breakpoint is (bp_low, bp_high, aqi_low, aqi_high,
\* category)
aqi_breakpoints(key) ==
    CASE key = "PM2.5" ->
           << <<Dec(0, 0), Dec(12, 0), 0, 50, "Good">>,
              <<Dec(12, 10), Dec(35, 40), 51, 100, "Moderate">>,
              <<Dec(35, 50), Dec(55, 40), 101, 150, "Unhealthy for Sensitive Groups">>,
              <<Dec(55, 50), Dec(150, 40), 151, 200, "Unhealthy">>,
              <<Dec(150, 50), Dec(250, 40), 201, 300, "Very Unhealthy">>,
              <<Dec(250, 50), Dec(500, 40), 301, 500, "Hazardous">> >>
      [] key = "PM10" ->
           << <<Dec(0, 0), Dec(54, 0), 0, 50, "Good">>,
              <<Dec(55, 0), Dec(154, 0), 51, 100, "Moderate">>,
              <<Dec(155, 0), Dec(254, 0), 101, 150, "Unhealthy for Sensitive Groups">>,
              <<Dec(255, 0), Dec(354, 0), 151, 200, "Unhealthy">>,
              <<Dec(355, 0), Dec(424, 0), 201, 300, "Very Unhealthy">>,
              <<Dec(425, 0), Dec(604, 0), 301, 500, "Hazardous">> >>
      [] key = "O3" ->
           << <<Dec(0, 0), Dec(54, 0), 0, 50, "Good">>,
              <<Dec(55, 0), Dec(70, 0), 51, 100, "Moderate">>,
              <<Dec(71, 0), Dec(85, 0), 101, 150, "Unhealthy for Sensitive Groups">>,
              <<Dec(86, 0), Dec(105, 0), 151, 200, "Unhealthy">>,
              <<Dec(106, 0), Dec(200, 0), 201, 300, "Very Unhealthy">> >>
      [] key = "NO2" ->
           << <<Dec(0, 0), Dec(53, 0), 0, 50, "Good">>,
              <<Dec(54, 0), Dec(100, 0), 51, 100, "Moderate">>,
              <<Dec(101, 0), Dec(360, 0), 101, 150, "Unhealthy for Sensitive Groups">>,
              <<Dec(361, 0), Dec(649, 0), 151, 200, "Unhealthy">>,
              <<Dec(650, 0), Dec(1249, 0), 201, 300, "Very Unhealthy">>,
              <<Dec(1250, 0), Dec(2049, 0), 301, 500, "Hazardous">> >>

bp_low(bp) == bp[1]
bp_high(bp) == bp[2]
aqi_low(bp) == bp[3]
aqi_high(bp) == bp[4]
category(bp) == bp[5]

\* a slip: the chain tests the NO2 patterns first
NormalizeKeyNO2First(pollutant) ==
    LET pollutant_upper == upper(pollutant)
    IN  IF \/ In(<<"N", "O", "2">>, pollutant_upper)
           \/ In(<<"N", "I", "T", "R", "O", "G", "E", "N", " ",
                   "D", "I", "O", "X", "I", "D", "E">>, pollutant_upper)
        THEN "NO2"
        ELSE IF \/ In(<<"P", "M", "2", ".", "5">>, pollutant_upper)
                \/ In(<<"P", "M", " ", "2", ".", "5">>, pollutant_upper)
        THEN "PM2.5"
        ELSE IF \/ In(<<"P", "M", "1", "0">>, pollutant_upper)
                \/ In(<<"P", "M", " ", "1", "0">>, pollutant_upper)
        THEN "PM10"
        ELSE IF \/ In(<<"O", "3">>, pollutant_upper)
                \/ In(<<"O", "Z", "O", "N", "E">>, pollutant_upper)
        THEN "O3"
        ELSE None

\* main.py:559-576: the table a label selects, None for the others
NormalizeKey(pollutant) ==
    LET pollutant_upper == upper(pollutant)
    IN  IF \/ In(<<"P", "M", "2", ".", "5">>, pollutant_upper)
           \/ In(<<"P", "M", " ", "2", ".", "5">>, pollutant_upper)
        THEN "PM2.5"
        ELSE IF \/ In(<<"P", "M", "1", "0">>, pollutant_upper)
                \/ In(<<"P", "M", " ", "1", "0">>, pollutant_upper)
        THEN "PM10"
        ELSE IF \/ In(<<"O", "3">>, pollutant_upper)
                \/ In(<<"O", "Z", "O", "N", "E">>, pollutant_upper)
        THEN "O3"
        ELSE IF \/ In(<<"N", "O", "2">>, pollutant_upper)
                \/ In(<<"N", "I", "T", "R", "O", "G", "E", "N", " ",
                        "D", "I", "O", "X", "I", "D", "E">>, pollutant_upper)
        THEN "NO2"
        ELSE None

\* a slip: int(aqi) without round(aqi) truncates
RoundDown(num, den) == {num \div den}

\* round(num/den), num >= 0 and den > 0.  Off a tie the float result is the
\* nearest integer.  On a tie (num/den = n + 1/2 exactly) the rounding error
\* of the float product decides which neighbour round() sees as nearer
\* (PM2.5 at 5.4 gives 23, PM10 at 16.74 gives 15): both are outcomes.
Round(num, den) ==
    LET q == num \div den
        r == num % den
    IN  IF 2 * r < den THEN {q}
        ELSE IF 2 * r > den THEN {q + 1}
        ELSE {q, q + 1}

Colors(cat) ==
    CASE cat = "Good" -> "#00e400"
      [] cat = "Moderate" -> "#ffff00"
      [] cat = "Unhealthy for Sensitive Groups" -> "#ff7e00"
      [] cat = "Unhealthy" -> "#ff0000"
      [] cat = "Very Unhealthy" -> "#8f3f97"
      [] cat = "Hazardous" -> "#7e0023"
      [] OTHER -> "#808080"

\* aqi None is available = FALSE
NotAvailable == [available |-> FALSE, aqi |-> 0, category |-> "Not Available",
                 color |-> "#808080"]

\* a slip: the test keeps only the lower bound
MatchesLowOnly(bp, value) == ~value.nan /\ bp_low(bp) <= value.x

\* bp_low <= value <= bp_high; every comparison with NaN is False
Matches(bp, value) ==
    ~value.nan /\ bp_low(bp) <= value.x /\ value.x <= bp_high(bp)

\* the linear interpolation of main.py:592 as the exact fraction num/den
Interpolate(bp, value) ==
    [num |-> (aqi_high(bp) - aqi_low(bp)) * (value.x - bp_low(bp))
                + aqi_low(bp) * (bp_high(bp) - bp_low(bp)),
     den |-> bp_high(bp) - bp_low(bp)]

\* the results calculate_aqi can return
calculate_aqi(pollutant, value) ==
    LET key == NormalizeKey(pollutant)
    IN  IF key = None THEN {NotAvailable}
        ELSE
        LET breakpoints == aqi_breakpoints(key)
            hits == {i \in 1..Len(breakpoints) : Matches(breakpoints[i], value)}
        IN  IF hits = {}
            THEN {[available |-> TRUE, aqi |-> 500, category |-> "Hazardous",
                   color |-> "#7e0023"]}
            ELSE
            LET bp == breakpoints[CHOOSE i \in hits : \A j \in hits : i <= j]
                aqi == Interpolate(bp, value)
            IN  {[available |-> TRUE, aqi |-> a, category |-> category(bp),
                  color |-> Colors(category(bp))] : a \in Round(aqi.num, aqi.den)}

(***************************************************************************)
(* The other endpoints, from the dataset and the request to the response.  *)
(* A handler that ends in an exception answers [raised |-> its name].      *)
(***************************************************************************)
\* a slip: the rows of every requested pollutant are averaged
OfPollutantUnrestricted(map_df, selected_pollutant) == map_df

\* map_df[map_df['pollutant'] == selected_pollutant]: main.py:308
OfPollutant(map_df, selected_pollutant) ==
    SelectSeq(map_df, LAMBDA r : r.pollutant = selected_pollutant)

\* get_map_data: main.py:282-325
get_map_data(df, request) ==
    LET df_filtered == filter_data("backend", df, request).df
        map_df == SelectSeq(df_filtered.rows, LAMBDA r : r.borough # "Unknown")
        \* not request.pollutants or len(request.pollutants) == 0
        all == request.pollutants.isNone \/ Len(request.pollutants.list) = 0
        selected_pollutant == IF all THEN "All" ELSE request.pollutants.list[1]
        map_pollutant_df == IF all THEN map_df
                            ELSE OfPollutant(map_df, selected_pollutant)
        means == GroupMean(map_pollutant_df, <<"borough">>, "value")
        borough_avg == [i \in 1..Len(means) |->
                           [borough |-> means[i].borough,
                            avg_value |-> means[i].value]]
    IN  IF Len(map_df) = 0
        THEN [data |-> <<>>, message |-> <<"No data available for map">>]
        ELSE IF Len(map_pollutant_df) = 0
        THEN [data |-> <<>>,
              message |-> <<"No data available for", selected_pollutant>>]
        ELSE [data |-> borough_avg,
              pollutant |-> selected_pollutant,
              unit |-> IF "unit" \in df_filtered.columns THEN map_df[1].unit ELSE ""]

\* x in items, for Series.isin(items)
IsIn(x, items) == \E i \in 1..Len(items) : items[i] = x

\* get_comparison_data: main.py:456-507; request is a ComparisonRequest
get_comparison_data(df, request) ==
    LET v == Views(df, request.filters)
        df_display == v.display
        by_borough == request.comparison_type = "boroughs"
        \* request.single_filter == 'All' or not request.single_filter
        every_borough == request.single_filter \in {"All", None, ""}
        comp_df ==
            IF by_borough
            THEN SelectSeq(df_display.rows,
                           LAMBDA r : /\ IsIn(r.borough, request.selected_items)
                                      /\ r.pollutant = request.single_filter)
            ELSE IF every_borough
            THEN SelectSeq(df_display.rows,
                           LAMBDA r : IsIn(r.pollutant, request.selected_items))
            ELSE SelectSeq(df_display.rows,
                           LAMBDA r : /\ IsIn(r.pollutant, request.selected_items)
                                      /\ r.borough = request.single_filter)
    IN  IF Len(v.filtered.rows) = 0
        THEN [data |-> <<>>, message |-> "No data available for comparison"]
        ELSE IF (by_borough \/ ~every_borough) /\ "borough" \notin df_display.columns
        THEN [raised |-> "KeyError"]
        ELSE [data |-> comp_df,
              value_col |-> v.value_col,
              unit |-> IF Len(comp_df) > 0 /\ "unit" \in df_display.columns
                       THEN comp_df[1].unit ELSE ""]

\* the float as a value of calculate_aqi, in hundredths
ToValue(f) == IF f.nan THEN NaNValue ELSE Value((f.num * 100) \div f.den)

\* the sequences that take one element from each set of a sequence of sets
RECURSIVE Choices(_)
Choices(sets) ==
    IF sets = <<>> THEN {<<>>}
    ELSE {<<h>> \o t : h \in Head(sets), t \in Choices(Tail(sets))}

\* calculate_aqi_endpoint: main.py:624-655; the responses it can give
calculate_aqi_endpoint(df, request) ==
    LET df_filtered == filter_data("backend", df, request).df
        \* no row equals a NaN label: the loop skips it (main.py:642-643)
        pollutants == SelectSeq(Unique(df_filtered.rows, "pollutant"),
                                LAMBDA p : p # NaN)
        results(pollutant) ==
            LET pollutant_df == SelectSeq(df_filtered.rows,
                                          LAMBDA r : r.pollutant = pollutant)
                avg_value == SeriesMean(Column(pollutant_df, "value"))
                unit == IF "unit" \in df_filtered.columns
                        THEN pollutant_df[1].unit ELSE ""
            IN  {[available |-> a.available, aqi |-> a.aqi,
                  category |-> a.category, color |-> a.color,
                  avg_value |-> avg_value, unit |-> unit] :
                    a \in calculate_aqi(Spelling[pollutant], ToValue(avg_value))}
    IN  IF Len(df_filtered.rows) = 0
        THEN {NoDataError}
        ELSE {[aqi_data |-> s] :
                 s \in Choices([k \in 1..Len(pollutants) |-> results(pollutants[k])])}

FMul(a, b) == Frac(a.num * b.num, a.den * b.den)

\* Series.std() squared: the sample variance of the cells that are not NaN,
\* NaN if there are fewer than two
SeriesVar(cells) ==
    LET ok == SelectSeq(cells, LAMBDA c : ~c.nan)
        mean == SeriesMean(cells)
        s == FSum([i \in 1..Len(ok) |->
                      FMul(FSub(ok[i], mean), FSub(ok[i], mean))])
    IN  IF Len(ok) < 2 THEN NaNF ELSE Frac(s.num, s.den * (Len(ok) - 1))

\* one pass of the loop of main.py:770-786; raised: idxmax() finds no value
SeasonalOf(df_filtered, pollutant) ==
    LET pollutant_df == SelectSeq(df_filtered.rows,
                                  LAMBDA r : pollutant # NaN /\ r.pollutant = pollutant)
        grouped == SelectSeq(pollutant_df, LAMBDA r : r.season # NaN)
        seasons == TsSortKeys(<<"season">>,
                              {<<grouped[i].season>> : i \in 1..Len(grouped)})
        cells(i) == Column(SelectSeq(grouped, LAMBDA r : r.season = seasons[i][1]),
                           "value")
        seasonal_avg ==
            [i \in 1..Len(seasons) |->
                [season |-> seasons[i][1],
                 avg_value |-> SeriesMean(cells(i)),
                 std_value |-> [squared |-> SeriesVar(cells(i))],
                 count |-> Len(SelectSeq(cells(i), LAMBDA c : ~c.nan))]]
        finite == {i \in 1..Len(seasons) : ~seasonal_avg[i].avg_value.nan}
        above(i, j) == FLess(seasonal_avg[j].avg_value, seasonal_avg[i].avg_value)
        idxmax == CHOOSE i \in finite :
                      \A j \in finite \ {i} : above(i, j) \/ (~above(j, i) /\ i < j)
        idxmin == CHOOSE i \in finite :
                      \A j \in finite \ {i} : above(j, i) \/ (~above(i, j) /\ i < j)
    IN  IF finite = {}
        THEN [raised |-> TRUE]
        ELSE [raised |-> FALSE,
              pollutant |-> pollutant,
              seasons |-> seasonal_avg,
              worst_season |-> seasonal_avg[idxmax].season,
              best_season |-> seasonal_avg[idxmin].season,
              unit |-> IF "unit" \in df_filtered.columns
                       THEN pollutant_df[1].unit ELSE ""]

\* the body of get_seasonal_patterns after the test for an empty table;
\* the exception of idxmax() or of .loc[] depends on the pandas release
SeasonalPatterns(df_filtered) ==
    LET pollutants == Unique(df_filtered.rows, "pollutant")
        each == [k \in 1..Len(pollutants) |-> SeasonalOf(df_filtered, pollutants[k])]
    IN  IF "season" \notin df_filtered.columns
        THEN {[error |-> "Season data not available"]}
        ELSE IF \E k \in 1..Len(pollutants) : each[k].raised
        THEN {[raised |-> "KeyError"], [raised |-> "ValueError"]}
        ELSE {[seasonal_patterns |-> each]}

\* a slip: the empty table is not answered apart
get_seasonal_patterns_unguarded(df, request) ==
    SeasonalPatterns(filter_data("backend", df, request).df)

\* get_seasonal_patterns: main.py:751-788; the responses it can give
get_seasonal_patterns(df, request) ==
    LET df_filtered == filter_data("backend", df, request).df
    IN  IF Len(df_filtered.rows) = 0
        THEN {NoDataError}
        ELSE SeasonalPatterns(df_filtered)

\* export_data: main.py:880-900
export_data(df, request) ==
    LET df_display == Views(df, request).display
    IN  [data |-> df_display.rows, count |-> Len(df_display.rows)]

(***************************************************************************)
(* Inputs of the AQI model.                                                *)
(***************************************************************************)
\* the largest value, in whole units
MaxValue == 2051

\* values lie on a grid of 0.05
Tick(n) == 5 * n

AqiValues ==
    {NaNValue} \cup {Value(Tick(n)) : n \in -1..(Dec(MaxValue, 0) \div Tick(1))}

\* "pm2.5", "PM10", "Ozone", "NO2", "SO2"
AqiLabels == {<<"p", "m", "2", ".", "5">>, <<"P", "M", "1", "0">>,
              <<"O", "z", "o", "n", "e">>, <<"N", "O", "2">>,
              <<"S", "O", "2">>}

\* labels that match several patterns, one pattern in another letter case,
\* or none: "NO2 PM2.5", "pm 2.5 o3", "PM10 Ozone", "O3 NO2", "pm 10",
\* "ozone", "Nitrogen Dioxide", "no2", "Benzene", "PM2", "SO2", ""
ClassifyLabels ==
    {<<"N", "O", "2", " ", "P", "M", "2", ".", "5">>,
     <<"p", "m", " ", "2", ".", "5", " ", "o", "3">>,
     <<"P", "M", "1", "0", " ", "O", "z", "o", "n", "e">>,
     <<"O", "3", " ", "N", "O", "2">>,
     <<"p", "m", " ", "1", "0">>,
     <<"o", "z", "o", "n", "e">>,
     <<"N", "i", "t", "r", "o", "g", "e", "n", " ",
       "D", "i", "o", "x", "i", "d", "e">>,
     <<"n", "o", "2">>,
     <<"B", "e", "n", "z", "e", "n", "e">>,
     <<"P", "M", "2">>,
     <<"S", "O", "2">>,
     <<>>}

ClassifyValues ==
    {NaNValue, Value(Tick(-1)), Value(Dec(0, 0)), Value(Dec(12, 10)),
     Value(Dec(54, 50)), Value(Dec(230, 0)), Value(Dec(600, 0)),
     Value(Dec(MaxValue, 0))}

AqiIdle ==
    /\ qPollutant = <<>>
    /\ qValue = NaNValue
    /\ qOut = NotAvailable
    /\ qPc = "idle"

(***************************************************************************)
(* Inputs of the accessor model.                                           *)
(***************************************************************************)
MaxFileRows == 1

FileRows ==
    {[date |-> RawDate(202001), year |-> 2020, month |-> 1, season |-> "Winter",
      pollutant |-> "PM2.5", borough |-> "Manhattan", value |-> F(10),
      unit |-> "ug/m3"],
     [date |-> RawDate(202107), year |-> 2021, month |-> 7, season |-> "Summer",
      pollutant |-> "O3", borough |-> "Bronx", value |-> F(20),
      unit |-> "ppb"]}

FileTables ==
    {[columns |-> MeasurementColumns, rows |-> WithIndex(s)] :
        s \in SeqsUpTo(FileRows, MaxFileRows)}

Locations == {"project", "cwd"}

LoadRequests == [date_range : {NoList},
                 pollutants : {NoList, List(<<"O3">>)},
                 boroughs : {NoList}, exclude_outliers : {TRUE},
                 agg_level : {"Raw", "Season"}]

DefaultRequest == [date_range |-> NoList, pollutants |-> NoList,
                   boroughs |-> NoList, exclude_outliers |-> TRUE,
                   agg_level |-> "Season"]

NoCall == [op |-> "none", req |-> DefaultRequest, raised |-> None, read |-> 0,
           df |-> NoTable]

LoadIdle ==
    /\ files = [l \in Locations |-> NoFile]
    /\ cache = NoCache
    /\ lOut = NoCall

LoadInit ==
    /\ FilterIdle
    /\ AggIdle
    /\ AqiIdle
    /\ AnalyticsIdle
    /\ NormIdle
    /\ CallersIdle
    /\ files \in [Locations -> {NoFile} \cup {[exists |-> TRUE, df |-> t] : t \in FileTables}]
    /\ cache = NoCache
    /\ lOut = NoCall

\* the build writes (or rewrites) the parquet file at a location
WriteFile(loc, table) ==
    /\ files' = [files EXCEPT ![loc] = [exists |-> TRUE, df |-> table]]
    /\ UNCHANGED <<cache, lOut>>
    /\ UNCHANGED <<filterVars, aggVars, aqiVars, analyticsVars, normVars, callerVars>>

\* the file at a location is deleted
RemoveFile(loc) ==
    /\ files[loc].exists
    /\ files' = [files EXCEPT ![loc] = NoFile]
    /\ UNCHANGED <<cache, lOut>>
    /\ UNCHANGED <<filterVars, aggVars, aqiVars, analyticsVars, normVars, callerVars>>

\* one request to an endpoint: load_data(), then the handler's work on the
\* table it returned.  FileNotFoundError ends the request.
Handle(op, req) ==
    LET l == load_data(cache, files)
    IN  /\ IF l.raised # None
           THEN cache' = l.cache
           ELSE cache' = [loaded |-> TRUE,
                          df |-> HandlerObjs(op, [h |-> <<l.df>>, ref |-> 1], req).h[1]]
        /\ lOut' = [op |-> op, req |-> req, raised |-> l.raised, read |-> l.read,
                    df |-> l.df]
        /\ UNCHANGED files
        /\ UNCHANGED <<filterVars, aggVars, aqiVars, analyticsVars, normVars, callerVars>>

\* GET /api/data/metadata takes no request body
GetMetadata == Handle("get_metadata", DefaultRequest)

\* the POST endpoints take a FilterRequest
Post(op, req) == Handle(op, req)

LoadNext ==
    \/ \E loc \in Locations, t \in FileTables : WriteFile(loc, t)
    \/ \E loc \in Locations : RemoveFile(loc)
    \/ GetMetadata
    \/ \E op \in Endpoints \ {"get_metadata"}, req \in LoadRequests : Post(op, req)

SpecLoad == LoadInit /\ [][LoadNext]_vars

(***************************************************************************)
(* The accessor under concurrent callers: the server runs its handlers on  *)
(* a pool of threads, so several calls of load_data() may be under way at  *)
(* once.  A step is one statement of load_data(); the files do not change. *)
(* A caller's df is an object of its own until it is stored, and no        *)
(* statement writes to it after that, so tables stand for the objects.     *)
(***************************************************************************)
\* the first of possible_paths that exists, 0 if none does: main.py:61-65
FirstPath(fs) ==
    LET existing == {i \in 1..Len(PossiblePaths) : fs[PossiblePaths[i]].exists}
    IN  IF existing = {} THEN 0
        ELSE CHOOSE k \in existing : \A o \in existing : k <= o

\* a slip: the converted table is returned without being stored
ThenWithoutStore(pc) ==
    CASE pc = "read" -> "convert"
      [] pc = "convert" -> "return"
      [] pc = "store" -> "return"

\* the statement that follows: read_parquet, the conversion of the date
\* column, the store to _data_cache, return: main.py:70-77
Then(pc) ==
    CASE pc = "read" -> "convert"
      [] pc = "convert" -> "store"
      [] pc = "store" -> "return"

\* if _data_cache is not None: main.py:52
Enter(t) ==
    /\ tPc[t] = "idle"
    /\ tPc' = [tPc EXCEPT ![t] = IF cache.loaded THEN "hit" ELSE "search"]
    /\ UNCHANGED <<tFile, tDf, tRet, loadVars>>
    /\ UNCHANGED <<filterVars, aggVars, aqiVars, analyticsVars, normVars>>

\* return _data_cache: main.py:53
ReturnCached(t) ==
    /\ tPc[t] = "hit"
    /\ tRet' = [tRet EXCEPT ![t] = cache.df]
    /\ tPc' = [tPc EXCEPT ![t] = "done"]
    /\ UNCHANGED <<tFile, tDf, loadVars>>
    /\ UNCHANGED <<filterVars, aggVars, aqiVars, analyticsVars, normVars>>

\* the search of possible_paths and the raise: main.py:55-68
FindFile(t) ==
    /\ tPc[t] = "search"
    /\ tFile' = [tFile EXCEPT ![t] = FirstPath(files)]
    /\ tPc' = [tPc EXCEPT ![t] = IF FirstPath(files) = 0 THEN "raised" ELSE "read"]
    /\ UNCHANGED <<tDf, tRet, loadVars>>
    /\ UNCHANGED <<filterVars, aggVars, aqiVars, analyticsVars, normVars>>

\* df = pd.read_parquet(parquet_file, engine='pyarrow'): main.py:70
ReadParquet(t) ==
    /\ tPc[t] = "read"
    /\ tDf' = [tDf EXCEPT ![t] = files[PossiblePaths[tFile[t]]].df]
    /\ tPc' = [tPc EXCEPT ![t] = Then("read")]
    /\ UNCHANGED <<tFile, tRet, loadVars>>
    /\ UNCHANGED <<filterVars, aggVars, aqiVars, analyticsVars, normVars>>

\* df['date'] = pd.to_datetime(df['date']): main.py:73-74
ConvertDate(t) ==
    /\ tPc[t] = "convert"
    /\ tDf' = [tDf EXCEPT ![t] = ToDatetime(tDf[t])]
    /\ tPc' = [tPc EXCEPT ![t] = Then("convert")]
    /\ UNCHANGED <<tFile, tRet, loadVars>>
    /\ UNCHANGED <<filterVars, aggVars, aqiVars, analyticsVars, normVars>>

\* _data_cache = df: main.py:76
Store(t) ==
    /\ tPc[t] = "store"
    /\ cache' = [loaded |-> TRUE, df |-> tDf[t]]
    /\ tPc' = [tPc EXCEPT ![t] = Then("store")]
    /\ UNCHANGED <<tFile, tDf, tRet, files, lOut>>
    /\ UNCHANGED <<filterVars, aggVars, aqiVars, analyticsVars, normVars>>

\* return df: main.py:77
Return(t) ==
    /\ tPc[t] = "return"
    /\ tRet' = [tRet EXCEPT ![t] = tDf[t]]
    /\ tPc' = [tPc EXCEPT ![t] = "done"]
    /\ UNCHANGED <<tFile, tDf, loadVars>>
    /\ UNCHANGED <<filterVars, aggVars, aqiVars, analyticsVars, normVars>>

RaceInit ==
    /\ FilterIdle
    /\ AggIdle
    /\ AqiIdle
    /\ AnalyticsIdle
    /\ NormIdle
    /\ CallersIdle
    /\ files \in [Locations -> {NoFile} \cup {[exists |-> TRUE, df |-> t] : t \in FileTables}]
    /\ cache = NoCache
    /\ lOut = NoCall

RaceNext ==
    \E t \in Callers :
        \/ Enter(t)
        \/ ReturnCached(t)
        \/ FindFile(t)
        \/ ReadParquet(t)
        \/ ConvertDate(t)
        \/ Store(t)
        \/ Return(t)

SpecRace == RaceInit /\ [][RaceNext]_vars

(***************************************************************************)
(* The aggregation model: one request to get_filtered_data.                *)
(***************************************************************************)
AggInit ==
    /\ FilterIdle
    /\ LoadIdle
    /\ AqiIdle
    /\ AnalyticsIdle
    /\ NormIdle
    /\ CallersIdle
    /\ aDf \in AggTables
    /\ aReq = [date_range |-> NoList, pollutants |-> NoList, boroughs |-> NoList,
               exclude_outliers |-> TRUE, agg_level |-> "Season"]
    /\ aFiltered = NoTable
    /\ aDisplay = NoTable
    /\ aResp = NoResp
    /\ aPc = "idle"

\* one request to POST /api/data/filtered
GetFilteredData(request) ==
    /\ aPc = "idle"
    /\ aPc' = "done"
    /\ aReq' = request
    /\ LET r == get_filtered_data(aDf, request)
       IN  /\ aFiltered' = r.filtered
           /\ aDisplay' = r.display
           /\ aResp' = r.resp
    /\ UNCHANGED aDf
    /\ UNCHANGED <<filterVars, loadVars, aqiVars, analyticsVars, normVars, callerVars>>

AggNext == \E request \in AggRequests : GetFilteredData(request)

SpecAgg == AggInit /\ [][AggNext]_vars

(***************************************************************************)
(* Inputs of the filter model.                                             *)
(***************************************************************************)
BaseColumns == {"date", "pollutant", "borough"}

RowsWithFlag == [date : Dates, pollutant : Pollutants, borough : Boroughs,
                 is_outlier : BOOLEAN]
RowsNoFlag == [date : Dates, pollutant : Pollutants, borough : Boroughs]

FilterTables ==
    {[columns |-> BaseColumns \cup {"is_outlier"}, rows |-> WithIndex(s)] :
        s \in SeqsUpTo(RowsWithFlag, MaxRows)}
    \cup
    {[columns |-> BaseColumns, rows |-> WithIndex(s)] :
        s \in SeqsUpTo(RowsNoFlag, MaxRows)}

\* date_range: absent, or a list of 0..3 dates
DateRanges == {NoList} \cup {List(s) : s \in SeqsUpTo(Dates, 2) \cup {<<1, 2, 2>>}}
PollutantLists == {NoList, List(<<"O3">>)}
BoroughLists == {NoList} \cup
    {List(s) : s \in {<<>>, <<"Bronx">>, <<"Manhattan", "All">>,
                      <<"All", "Bronx">>}}
Requests == [date_range : DateRanges, pollutants : PollutantLists,
             boroughs : BoroughLists, exclude_outliers : BOOLEAN]

FilterInit(variant) ==
    /\ fVariant = variant
    /\ fDf \in FilterTables
    /\ fReq = [date_range |-> NoList, pollutants |-> NoList,
                boroughs |-> NoList, exclude_outliers |-> TRUE]
    /\ fOut = [raised |-> None, df |-> NoTable]
    /\ fPc = "idle"
    /\ AggIdle
    /\ LoadIdle
    /\ AqiIdle
    /\ AnalyticsIdle
    /\ NormIdle
    /\ CallersIdle

\* one call filter_data(df, ...) with the Query Specification req
FilterData(req) ==
    /\ fPc = "idle"
    /\ fPc' = "done"
    /\ fReq' = req
    /\ fOut' = filter_data(fVariant, fDf, req)
    /\ UNCHANGED <<fVariant, fDf>>
    /\ UNCHANGED <<aggVars, loadVars, aqiVars, analyticsVars, normVars, callerVars>>

FilterNext == \E req \in Requests : FilterData(req)

\* filter_data of backend/main.py
SpecFilter == FilterInit("backend") /\ [][FilterNext]_vars

\* filter_data of app.py
SpecFilterApp == FilterInit("app") /\ [][FilterNext]_vars

(***************************************************************************)
(* The AQI model: one call of calculate_aqi.                               *)
(***************************************************************************)
AqiInit ==
    /\ FilterIdle
    /\ AggIdle
    /\ LoadIdle
    /\ AnalyticsIdle
    /\ NormIdle
    /\ CallersIdle
    /\ qPollutant \in AqiLabels
    /\ qValue \in AqiValues
    /\ qOut = NotAvailable
    /\ qPc = "idle"

CalculateAqi ==
    /\ qPc = "idle"
    /\ qPc' = "done"
    /\ qOut' \in calculate_aqi(qPollutant, qValue)
    /\ UNCHANGED <<qPollutant, qValue>>
    /\ UNCHANGED <<filterVars, aggVars, loadVars, analyticsVars, normVars, callerVars>>

AqiNext == CalculateAqi

SpecAqi == AqiInit /\ [][AqiNext]_vars

\* calculate_aqi on labels that match several patterns or none
ClassifyInit ==
    /\ FilterIdle
    /\ AggIdle
    /\ LoadIdle
    /\ AnalyticsIdle
    /\ NormIdle
    /\ CallersIdle
    /\ qPollutant \in ClassifyLabels
    /\ qValue \in ClassifyValues
    /\ qOut = NotAvailable
    /\ qPc = "idle"

SpecClassify == ClassifyInit /\ [][AqiNext]_vars

(***************************************************************************)
(* The analytics model: one request to one analytics endpoint.             *)
(***************************************************************************)
\* the responses an endpoint can give
Respond(op, df, request) ==
    CASE op = "get_trend_analysis" -> {get_trend_analysis(df, request)}
      [] op = "get_correlation_analysis" ->
           {get_correlation_analysis(df, request, ulp) : ulp \in Ulps(df)}
      [] op = "get_heatmap_data" -> {get_heatmap_data(df, request)}
      [] op = "get_timeseries_data" -> {get_timeseries_data(df, request)}
      [] op = "get_kpis" -> {get_kpis(df, request)}
      [] op = "KeyMetrics" -> {KeyMetrics(df, request)}
      [] op = "get_filtered_data" -> {get_filtered_data(df, request).resp}
      [] op = "get_map_data" -> {get_map_data(df, request)}
      [] op = "get_comparison_data" -> {get_comparison_data(df, request)}
      [] op = "calculate_aqi_endpoint" -> calculate_aqi_endpoint(df, request)
      [] op = "get_seasonal_patterns" -> get_seasonal_patterns(df, request)
      [] op = "export_data" -> {export_data(df, request)}

\* one request: df = load_data(), then the handler's response
Call(op, request) ==
    /\ hPc = "idle"
    /\ hPc' = "done"
    /\ hOp' = op
    /\ hReq' = request
    /\ hOut' \in Respond(op, hDf, request)
    /\ UNCHANGED hDf
    /\ UNCHANGED <<filterVars, aggVars, loadVars, aqiVars, normVars, callerVars>>

AnalyticsInit(tables) ==
    /\ FilterIdle
    /\ AggIdle
    /\ LoadIdle
    /\ AqiIdle
    /\ NormIdle
    /\ CallersIdle
    /\ hDf \in tables
    /\ hOp = "none"
    /\ hReq = IdleRequest
    /\ hOut = [op |-> "none"]
    /\ hPc = "idle"

(***************************************************************************)
(* Inputs of the trend model.                                              *)
(***************************************************************************)
MaxTrendRows == 3

Measurement(year, pollutant, value) ==
    [date |-> year * 100 + 1, year |-> year, month |-> 1, season |-> "Winter",
     pollutant |-> pollutant, borough |-> "Manhattan", value |-> value,
     unit |-> UnitOf(pollutant)]

TrendMeasurements ==
    {Measurement(2018, "PM2.5", v) : v \in {NaNF, F(0), F(10), F(30)}}
    \cup {Measurement(2019, "PM2.5", v) : v \in {NaNF, F(20)}}
    \cup {Measurement(2020, "PM2.5", v) : v \in {F(10), F(30)}}
    \cup {Measurement(2018, "O3", F(10)), Measurement(2019, "O3", F(20))}

TrendTables ==
    {[columns |-> MeasurementColumns, rows |-> WithIndex(s)] :
        s \in SeqsUpTo(TrendMeasurements, MaxTrendRows)}

TrendRequests == [date_range : {NoList}, pollutants : {NoList},
                  boroughs : {NoList}, exclude_outliers : {TRUE},
                  agg_level : {"Raw", "Year", "Season"}]

TrendInit == AnalyticsInit(TrendTables)

GetTrendAnalysis(request) == Call("get_trend_analysis", request)

TrendNext == \E request \in TrendRequests : GetTrendAnalysis(request)

SpecTrend == TrendInit /\ [][TrendNext]_vars

(***************************************************************************)
(* Inputs of the correlation model: a table holds, for every date and      *)
(* pollutant, no row, one row, or two rows.                                *)
(***************************************************************************)
MaxCorrDates == 2

CorrDates == {202000 + k : k \in 1..MaxCorrDates}

\* the <<borough, value>> of the rows of one date and pollutant
CellRows == {<<>>, << <<"Manhattan", F(10)>> >>, << <<"Manhattan", F(20)>> >>,
             << <<"Manhattan", F(10)>>, <<"Manhattan", F(30)>> >>,
             << <<"Bronx", F(30)>> >>}

CorrCells == SeqOf(CorrDates \X Pollutants)

CorrRows(g) ==
    Concat([k \in 1..Len(CorrCells) |->
              [i \in 1..Len(g[CorrCells[k]]) |->
                  [date |-> CorrCells[k][1], year |-> 2020,
                   month |-> CorrCells[k][1] % 100, season |-> "Winter",
                   pollutant |-> CorrCells[k][2],
                   borough |-> g[CorrCells[k]][i][1],
                   value |-> g[CorrCells[k]][i][2],
                   unit |-> UnitOf(CorrCells[k][2])]]])

CorrTables ==
    {[columns |-> MeasurementColumns, rows |-> WithIndex(CorrRows(g))] :
        g \in [CorrDates \X Pollutants -> CellRows]}

CorrRequests == [date_range : {NoList}, pollutants : {NoList},
                 boroughs : {NoList, List(<<"Manhattan">>)},
                 exclude_outliers : {TRUE}, agg_level : {"Season"}]

CorrInit == AnalyticsInit(CorrTables)

GetCorrelationAnalysis(request) == Call("get_correlation_analysis", request)

CorrNext == \E request \in CorrRequests : GetCorrelationAnalysis(request)

SpecCorr == CorrInit /\ [][CorrNext]_vars

(***************************************************************************)
(* Inputs of the pair-list model: three pollutants measured on the same    *)
(* four dates, or not at all.                                              *)
(***************************************************************************)
MaxPairSeries == 5

PairPollutants == <<"Nitrogen dioxide (NO2)", "O3", "PM2.5">>

\* the values of a pollutant over the four dates, in tens
PairSeries ==
    <<<<1, 2, 3, 4>>, <<1, 3, 2, 4>>, <<2, 1, 4, 3>>, <<4, 3, 2, 1>>,
      <<1, 4, 2, 3>>, <<2, 4, 1, 3>>, <<3, 1, 4, 2>>>>

PairChoices ==
    {<<>>} \cup {PairSeries[k] : k \in 1..MaxPairSeries}

PairRows(g) ==
    Concat([k \in 1..Len(PairPollutants) |->
              [i \in 1..Len(g[k]) |->
                  [date |-> 202000 + i, year |-> 2020, month |-> i,
                   season |-> "Winter", pollutant |-> PairPollutants[k],
                   borough |-> "Manhattan", value |-> F(10 * g[k][i]),
                   unit |-> UnitOf(PairPollutants[k])]]])

PairTables ==
    {[columns |-> MeasurementColumns, rows |-> WithIndex(PairRows(g))] :
        g \in [1..Len(PairPollutants) -> PairChoices]}

PairRequests == [date_range : {NoList}, pollutants : {NoList},
                 boroughs : {NoList}, exclude_outliers : {TRUE},
                 agg_level : {"Season"}]

PairInit == AnalyticsInit(PairTables)

PairNext == \E request \in PairRequests : GetCorrelationAnalysis(request)

SpecPairs == PairInit /\ [][PairNext]_vars

(***************************************************************************)
(* Inputs of the heatmap model.                                            *)
(***************************************************************************)
MaxHeatRows == 3

HeatBoroughs == {"Manhattan", "Bronx", "Queens", "Citywide", "Unknown", NaN}

HeatMeasurements ==
    {[Measurement(2020, p, F(10)) EXCEPT !.borough = b] :
        p \in Pollutants, b \in HeatBoroughs}
    \cup {Measurement(2020, "PM2.5", F(15))}

HeatTables ==
    {[columns |-> MeasurementColumns, rows |-> WithIndex(s)] :
        s \in SeqsUpTo(HeatMeasurements, MaxHeatRows)}

HeatRequests == [date_range : {NoList}, pollutants : {NoList},
                 boroughs : {NoList, List(<<"Bronx", "Manhattan", "Unknown">>)},
                 exclude_outliers : {TRUE}, agg_level : {"Season"}]

HeatInit == AnalyticsInit(HeatTables)

GetHeatmapData(request) == Call("get_heatmap_data", request)

HeatNext == \E request \in HeatRequests : GetHeatmapData(request)

SpecHeat == HeatInit /\ [][HeatNext]_vars

(***************************************************************************)
(* Inputs of the time-series model.                                        *)
(***************************************************************************)
MaxTsRows == 2

TsPeriods == {<<2019, "Summer", 7>>, <<2019, "Winter", 12>>,
              <<2020, "Winter", 1>>, <<2020, "Annual", 1>>, <<2020, "Spring", 4>>,
              <<2020, "Summer", 7>>, <<2020, "Fall", 10>>}

TsPollutants == {"PM2.5", "Annual vehicle miles traveled", "Truck Miles",
                 "Nitrogen dioxide (NO2)"}

\* the value measured for a pollutant
TsValue(p) ==
    CASE p = "Annual vehicle miles traveled" -> F(20)
      [] p = "Truck Miles" -> F(40)
      [] OTHER -> F(10)

TsMeasurements ==
    {[Measurement(pd[1], p, TsValue(p)) EXCEPT !.season = pd[2], !.month = pd[3],
                                               !.date = pd[1] * 100 + pd[3]] :
        pd \in TsPeriods, p \in TsPollutants}
    \cup {Measurement(2020, "PM2.5", F(15))}

TsTables ==
    {[columns |-> MeasurementColumns, rows |-> WithIndex(s)] :
        s \in SeqsUpTo(TsMeasurements, MaxTsRows)}

TsRequests == [date_range : {NoList}, pollutants : {NoList},
               boroughs : {NoList}, exclude_outliers : {TRUE},
               agg_level : {"Season", "Year", "Month", "Raw"}]

TsInit == AnalyticsInit(TsTables)

GetTimeseriesData(request) == Call("get_timeseries_data", request)

TsNext == \E request \in TsRequests : GetTimeseriesData(request)

SpecTimeseries == TsInit /\ [][TsNext]_vars

(***************************************************************************)
(* The normalizer model: one call site normalizes two raw labels.          *)
(***************************************************************************)
NormWords ==
    {<<"v", "e", "h", "i", "c", "l", "e">>, <<"V", "e", "h", "i", "c", "l", "e">>,
     <<"V", "E", "H", "I", "C", "L", "E">>, <<"v", "e", "h", "i", "c", "l">>,
     <<"t", "r", "u", "c", "k">>, <<"T", "r", "u", "c", "k", "s">>,
     <<"T", "R", "U", "C", "K">>, <<"t", "r", "u", "k">>,
     <<"P", "M", "2", ".", "5">>}

NormPrefixes == {<<>>, <<"A", "n", "n", "u", "a", "l", " ">>}

NormSuffixes == {<<>>, <<" ", "m", "i", "l", "e", "s", " ", "t", "r", "a", "v",
                         "e", "l", "e", "d">>}

NormLabels ==
    {a \o w \o z : a \in NormPrefixes, w \in NormWords, z \in NormSuffixes}
    \cup {e[1] : e \in pollutant_short_names}

NormInit ==
    /\ FilterIdle
    /\ AggIdle
    /\ LoadIdle
    /\ AqiIdle
    /\ AnalyticsIdle
    /\ CallersIdle
    /\ nIn \in NormLabels \X NormLabels
    /\ nOut = [site |-> "none"]

\* the call site applies its normalizer to every label of the column
Normalize(site, short) ==
    /\ nOut.site = "none"
    /\ nOut' = [site |-> site, short |-> short]
    /\ UNCHANGED nIn
    /\ UNCHANGED <<filterVars, aggVars, loadVars, aqiVars, analyticsVars, callerVars>>

\* main.py:353
HeatmapNormalize == 
    Normalize("heatmap", <<NormalizeForHeatmap(nIn[1]), NormalizeForHeatmap(nIn[2])>>)

\* main.py:432
TimeseriesNormalize == 
    Normalize("timeseries", <<NormalizeName(nIn[1]), NormalizeName(nIn[2])>>)

\* app.py:666
TimeseriesNormalizeApp == 
    Normalize("timeseries_app", <<NormalizeNameApp(nIn[1]), NormalizeNameApp(nIn[2])>>)

NormNext ==
    \/ HeatmapNormalize
    \/ TimeseriesNormalize
    \/ TimeseriesNormalizeApp

SpecNorm == NormInit /\ [][NormNext]_vars

(***************************************************************************)
(* The column model: the heatmap of the dashboard names its columns.       *)
(***************************************************************************)
MaxCols == 3

\* the first 25 characters of two labels of the dataset
Asthma25 ==
    <<"A", "s", "t", "h", "m", "a", " ", "e", "m", "e", "r", "g", "e", "n",
      "c", "y", " ", "d", "e", "p", "a", "r", "t", "m", "e">>

ColumnLabels ==
    {Asthma25,
     Asthma25 \o <<"n", "t", " ", "v", "i", "s", "i", "t", "s", " ", "d", "u",
                 "e", " ", "t", "o", " ", "P", "M", "2", ".", "5">>,
     Asthma25 \o <<"n", "t", "s", " ", "v", "i", "s", "i", "t", "s", " ", "d",
                 "u", "e", " ", "t", "o", " ", "O", "z", "o", "n", "e">>,
     Asthma25 \o <<" ", "(", "1", ")">>,
     <<"O", "3">>, <<"O", "3", " ", "(", "1", ")">>,
     <<"P", "M", "2", ".", "5">>,
     Spelling["Annual vehicle miles traveled"], Spelling["Truck Miles"],
     VehicleMiles}

\* the pollutants of heatmap_df, each once
ColumnInputs ==
    {SortedStrs(S) : S \in {T \in SUBSET ColumnLabels :
                               Cardinality(T) \in 1..MaxCols}}

ColumnInit ==
    /\ FilterIdle
    /\ AggIdle
    /\ LoadIdle
    /\ AqiIdle
    /\ AnalyticsIdle
    /\ CallersIdle
    /\ nIn \in ColumnInputs
    /\ nOut = [site |-> "none"]

\* app.py:489-527
RenameColumns ==
    /\ nOut.site = "none"
    /\ nOut' = [site |-> "heatmap_columns", columns |-> HeatmapColumns(nIn)]
    /\ UNCHANGED nIn
    /\ UNCHANGED <<filterVars, aggVars, loadVars, aqiVars, analyticsVars, callerVars>>

ColumnNext == RenameColumns

SpecColumns == ColumnInit /\ [][ColumnNext]_vars

(***************************************************************************)
(* Inputs of the KPI model.                                                *)
(***************************************************************************)
MaxKpiRows == 3

KpiMeasurements ==
    {Measurement(2020, p, v) : p \in Pollutants, v \in {NaNF, F(10), F(20), F(40)}}

KpiTables ==
    {[columns |-> MeasurementColumns, rows |-> WithIndex(s)] :
        s \in SeqsUpTo(KpiMeasurements, MaxKpiRows)}

KpiRequests == [date_range : {NoList},
                pollutants : {NoList, List(<<"O3">>)},
                boroughs : {NoList}, exclude_outliers : {TRUE},
                agg_level : {"Raw", "Season"}]

KpiInit == AnalyticsInit(KpiTables)

GetKpis(request) == Call("get_kpis", request)

RenderKeyMetrics(request) == Call("KeyMetrics", request)

KpiNext ==
    \/ \E request \in KpiRequests : GetKpis(request)
    \/ \E request \in KpiRequests : RenderKeyMetrics(request)

SpecKpi == KpiInit /\ [][KpiNext]_vars

(***************************************************************************)
(* The endpoint model: one request to one of the data endpoints.           *)
(***************************************************************************)
MaxEndpointRows == 2

EndpointMeasurements ==
    {[Measurement(2020, m[1], F(m[4])) EXCEPT
          !.season = m[2], !.month = IF m[2] = "Winter" THEN 1 ELSE 7,
          !.date = IF m[2] = "Winter" THEN 202001 ELSE 202007,
          !.borough = m[3]] :
        m \in {<<"PM2.5", "Winter", "Manhattan", 12>>,
               <<"PM2.5", "Summer", "Manhattan", 24>>,
               <<"PM2.5", "Winter", "Bronx", 24>>,
               <<"O3", "Winter", "Manhattan", 12>>,
               <<"O3", "Summer", "Bronx", 24>>,
               <<"O3", "Summer", "Manhattan", 12>>}}

EndpointTables ==
    {[columns |-> MeasurementColumns, rows |-> WithIndex(s)] :
        s \in SeqsUpTo(EndpointMeasurements, MaxEndpointRows)}

EndpointRequests ==
    [date_range : {NoList},
     pollutants : {NoList, List(<<>>), List(<<"O3">>)},
     boroughs : {NoList}, exclude_outliers : {TRUE},
     agg_level : {"Raw", "Month", "Season", "Year"}]

\* ComparisonRequest: main.py:448-452
ComparisonRequests ==
    [filters : EndpointRequests, comparison_type : {"boroughs"},
     selected_items : {<<"Manhattan", "Bronx">>}, single_filter : {"O3"}]
    \cup [filters : EndpointRequests, comparison_type : {"pollutants"},
          selected_items : {<<"PM2.5", "O3">>},
          single_filter : {None, "All", "Manhattan"}]

\* the endpoints that take a FilterRequest and answer from the filtered rows
DataEndpoints ==
    {"get_filtered_data", "get_map_data", "get_heatmap_data",
     "get_timeseries_data", "calculate_aqi_endpoint", "get_trend_analysis",
     "get_seasonal_patterns", "get_correlation_analysis", "export_data"}

EndpointInit == AnalyticsInit(EndpointTables)

PostData(op, request) == Call(op, request)

PostComparison(request) == Call("get_comparison_data", request)

EndpointNext ==
    \/ \E op \in DataEndpoints, request \in EndpointRequests : PostData(op, request)
    \/ \E request \in ComparisonRequests : PostComparison(request)

SpecEndpoints == EndpointInit /\ [][EndpointNext]_vars

(***************************************************************************)
(* Inputs of the seasonal model.                                           *)
(***************************************************************************)
MaxSeasonalRows == 2

SeasonalMeasurements ==
    {[Measurement(2020, m[1], m[3]) EXCEPT !.season = m[2]] :
        m \in {<<"PM2.5", "Winter", F(10)>>, <<"PM2.5", "Summer", F(10)>>,
               <<"PM2.5", "Summer", F(20)>>, <<"PM2.5", "Fall", NaNF>>,
               <<"O3", "Summer", F(5)>>, <<"O3", "Winter", NaNF>>}}

SeasonalTables ==
    {[columns |-> MeasurementColumns, rows |-> WithIndex(s)] :
        s \in SeqsUpTo(SeasonalMeasurements, MaxSeasonalRows)}

SeasonalRequests ==
    [date_range : {NoList},
     pollutants : {NoList, List(<<"O3">>), List(<<"PM2.5">>)},
     boroughs : {NoList}, exclude_outliers : {TRUE}, agg_level : {"Season"}]

SeasonalInit == AnalyticsInit(SeasonalTables)

GetSeasonalPatterns(request) == Call("get_seasonal_patterns", request)

SeasonalNext == \E request \in SeasonalRequests : GetSeasonalPatterns(request)

SpecSeasonal == SeasonalInit /\ [][SeasonalNext]_vars

(***************************************************************************)
(* Inputs of the map model.                                                *)
(***************************************************************************)
MaxMapRows == 2

MapBoroughs == {"Manhattan", "Bronx", "Unknown"}

MapMeasurements ==
    {[Measurement(2020, p, v) EXCEPT !.borough = b] :
        p \in Pollutants, b \in MapBoroughs, v \in {F(10), F(20)}}
    \cup {Measurement(2020, "O3", NaNF)}

MapTables ==
    {[columns |-> MeasurementColumns, rows |-> WithIndex(s)] :
        s \in SeqsUpTo(MapMeasurements, MaxMapRows)}

MapRequests ==
    [date_range : {NoList},
     pollutants : {NoList, List(<<>>), List(<<"O3">>), List(<<"O3", "PM2.5">>),
                   List(<<"PM2.5", "O3">>)},
     boroughs : {NoList}, exclude_outliers : {TRUE}, agg_level : {"Season"}]

MapInit == AnalyticsInit(MapTables)

GetMapData(request) == Call("get_map_data", request)

MapNext == \E request \in MapRequests : GetMapData(request)

SpecMap == MapInit /\ [][MapNext]_vars

(***************************************************************************)
(* Properties of the Filter Engine.                                        *)
(***************************************************************************)
FilterDone == fPc = "done"

NoDateReq == [fReq EXCEPT !.date_range = NoList]

BothBounds(req) == ~req.date_range.isNone /\ Len(req.date_range.list) = 2

InRange(r, req) == /\ r.date >= req.date_range.list[1]
                   /\ r.date <= req.date_range.list[2]

BoroughActive(req) == Truthy(req.boroughs) /\ ~InList("All", req.boroughs)

OutlierActive(columns, req) == req.exclude_outliers /\ "is_outlier" \in columns

\* the conjunction of the active predicates, as the specification states them
Keep(r, columns, req) ==
    /\ BothBounds(req) => InRange(r, req)
    /\ Truthy(req.pollutants) => InList(r.pollutant, req.pollutants)
    /\ BoroughActive(req) => InList(r.borough, req.boroughs)
    /\ OutlierActive(columns, req) => ~r.is_outlier

\* the k-th statement of filter_data applied to rows
ApplyStep(k, rows) ==
    CASE k = 1 -> DateFilter(fVariant, rows, fReq.date_range).rows
      [] k = 2 -> PollutantFilter(rows, fReq.pollutants)
      [] k = 3 -> BoroughFilter(rows, fReq.boroughs)
      [] k = 4 -> OutlierFilter(fDf.columns, rows, fReq.exclude_outliers)

\* the 24 orders of the four statements
StepOrders ==
    {<<1, 2, 3, 4>>, <<1, 2, 4, 3>>, <<1, 3, 2, 4>>, <<1, 3, 4, 2>>,
     <<1, 4, 2, 3>>, <<1, 4, 3, 2>>, <<2, 1, 3, 4>>, <<2, 1, 4, 3>>,
     <<2, 3, 1, 4>>, <<2, 3, 4, 1>>, <<2, 4, 1, 3>>, <<2, 4, 3, 1>>,
     <<3, 1, 2, 4>>, <<3, 1, 4, 2>>, <<3, 2, 1, 4>>, <<3, 2, 4, 1>>,
     <<3, 4, 1, 2>>, <<3, 4, 2, 1>>, <<4, 1, 2, 3>>, <<4, 1, 3, 2>>,
     <<4, 2, 1, 3>>, <<4, 2, 3, 1>>, <<4, 3, 1, 2>>, <<4, 3, 2, 1>>}

ApplyOrder(p, rows) ==
    ApplyStep(p[4], ApplyStep(p[3], ApplyStep(p[2], ApplyStep(p[1], rows))))

\* C1: filtering an already-filtered result with the same Query
\* Specification succeeds and yields exactly the rows of the first
\* application (same index labels, same order, same columns).
C1_FilterIdempotent ==
    (FilterDone /\ fOut.raised = None)
        => filter_data(fVariant, fOut.df, fReq) = fOut

\* a call with all four predicates active that dropped a row and kept one
C1_Witness ==
    /\ FilterDone /\ fOut.raised = None
    /\ BothBounds(fReq) /\ Truthy(fReq.pollutants)
    /\ BoroughActive(fReq) /\ OutlierActive(fDf.columns, fReq)
    /\ Len(fOut.df.rows) = 1 /\ Len(fDf.rows) = 2

\* C2: the result is exactly the input rows that satisfy every active
\* predicate, in input order, and the four statements applied in any of the
\* 24 orders give that same result; the outlier predicate is active only
\* when the is_outlier column exists and exclude_outliers is true.
C2_FilterIsPredicateIntersection ==
    (FilterDone /\ fOut.raised = None) =>
        /\ fOut.df.rows = SelectSeq(fDf.rows, LAMBDA r : Keep(r, fDf.columns, fReq))
        /\ fOut.df.columns = fDf.columns
        /\ \A p \in StepOrders : ApplyOrder(p, fDf.rows) = fOut.df.rows
        /\ ~OutlierActive(fDf.columns, fReq) =>
              fOut = filter_data(fVariant, fDf, [fReq EXCEPT !.exclude_outliers = FALSE])

\* exclude_outliers is false, the table has a flagged row, and it is kept
C2_Witness ==
    /\ FilterDone /\ fOut.raised = None
    /\ "is_outlier" \in fDf.columns /\ ~fReq.exclude_outliers
    /\ BothBounds(fReq) /\ Truthy(fReq.pollutants) /\ BoroughActive(fReq)
    /\ Len(fDf.rows) = 2 /\ Len(fOut.df.rows) = 1
    /\ fOut.df.rows[1].is_outlier

\* C3: a borough set containing the sentinel 'All' at any position gives
\* the same outcome as an absent and as an empty borough set.
C3_SentinelAllDisablesBoroughFilter ==
    (FilterDone /\ InList("All", fReq.boroughs)) =>
        /\ fOut = filter_data(fVariant, fDf, [fReq EXCEPT !.boroughs = NoList])
        /\ fOut = filter_data(fVariant, fDf, [fReq EXCEPT !.boroughs = List(<<>>)])

\* 'All' comes second, after a borough that is not the one of a kept row
C3_Witness ==
    /\ FilterDone /\ fOut.raised = None
    /\ fReq.boroughs = List(<<"Manhattan", "All">>)
    /\ \E i \in 1..Len(fOut.df.rows) : fOut.df.rows[i].borough = "Bronx"

\* C4: with both bounds the call keeps exactly the rows with
\* start <= date <= end (among those the other predicates keep); with an
\* absent date_range or one that does not supply both bounds it applies no
\* date filtering and does not fail.
C4_DateFilterNeedsBothBounds ==
    FilterDone =>
        /\ fOut.raised = None
        /\ IF BothBounds(fReq)
           THEN fOut.df.rows =
                  SelectSeq(filter_data(fVariant, fDf, NoDateReq).df.rows,
                            LAMBDA r : InRange(r, fReq))
           ELSE fOut = filter_data(fVariant, fDf, NoDateReq)

(***************************************************************************)
(* Properties of the Aggregation Engine.                                   *)
(***************************************************************************)
\* get_filtered_data aggregated a non-empty filtered view
Aggregated ==
    /\ aPc = "done"
    /\ aReq.agg_level \in {"Month", "Season", "Year"}
    /\ Len(aFiltered.rows) > 0

CountSum(df) == SumSeq([i \in 1..Len(df.rows) |-> df.rows[i].value_count])

NonMissing(df) == Len(SelectSeq(df.rows, LAMBDA r : ~r.value.nan))

\* C5 as claimed: for a non-empty filtered view whose value may be NaN, the
\* aggregate has at most as many rows as its input and value_count summed
\* over the groups equals the number of input rows.
C5_ValueCountSumsToRowCount ==
    Aggregated =>
        /\ Len(aDisplay.rows) <= Len(aFiltered.rows)
        /\ CountSum(aDisplay) = Len(aFiltered.rows)

\* C5 as amended: the aggregate has at least one and at most as many rows
\* as its input, and value_count summed over the groups equals the number
\* of input rows whose value is not NaN.
C5_ValueCountSumsToNonMissing ==
    Aggregated =>
        /\ Len(aDisplay.rows) >= 1
        /\ Len(aDisplay.rows) <= Len(aFiltered.rows)
        /\ CountSum(aDisplay) = NonMissing(aFiltered)

\* two rows of one group, one of them with a NaN value
C5_Witness ==
    /\ Aggregated
    /\ Len(aFiltered.rows) = 2 /\ Len(aDisplay.rows) = 1
    /\ NonMissing(aFiltered) = 1
    /\ aDisplay.rows[1].value_count = 1

\* the unit of a pollutant in a table: the unit of its first row
FirstUnit(df, pollutant) ==
    df.rows[CHOOSE i \in 1..Len(df.rows) :
              /\ df.rows[i].pollutant = pollutant
              /\ \A j \in 1..(i - 1) : df.rows[j].pollutant # pollutant].unit

\* C6: after aggregation at Month, Season or Year level every aggregated
\* row carries the unit of its pollutant, and the unit of the response is
\* that unit and not empty.
C6_AggregatedRowsCarryUnit ==
    Aggregated =>
        /\ "unit" \in aDisplay.columns
        /\ \A i \in 1..Len(aDisplay.rows) :
              aDisplay.rows[i].unit = FirstUnit(aFiltered, aDisplay.rows[i].pollutant)
        /\ aResp.unit # ""
        /\ aResp.unit = FirstUnit(aFiltered, aDisplay.rows[1].pollutant)

(***************************************************************************)
(* Properties of the Dataset Accessor.                                     *)
(***************************************************************************)
\* a step that is a request (the file steps change files, or nothing)
CallStep == files' = files

\* the first candidate path that exists, in the order of the specification:
\* the project path, then the working-directory path
FirstExisting ==
    IF files["project"].exists THEN "project" ELSE "cwd"

AnyExisting == \E loc \in Locations : files[loc].exists

C7_Step ==
    /\ cache.loaded => cache'.loaded
    /\ CallStep =>
          IF cache.loaded
          THEN /\ lOut'.raised = None
               /\ lOut'.read = 0
               /\ lOut'.df = cache.df
          ELSE IF AnyExisting
          THEN /\ lOut'.raised = None
               /\ lOut'.read # 0
               /\ PossiblePaths[lOut'.read] = FirstExisting
               /\ \A i \in 1..(lOut'.read - 1) : ~files[PossiblePaths[i]].exists
               /\ lOut'.df = ToDatetime(files[FirstExisting].df)
               /\ cache'.loaded
               /\ cache'.df = lOut'.df
          ELSE /\ lOut'.raised = "FileNotFoundError"
               /\ lOut'.read = 0
               /\ ~cache'.loaded

\* C7: a call of load_data() with the cache empty reads the first existing
\* candidate path and stores the table in the cache; with the cache filled
\* it returns the cached table and reads no file; with no candidate path it
\* raises the not-found error and leaves the cache empty; and no step ever
\* clears the cache.
C7_LoadReadsOnceThenCaches == [][C7_Step]_vars

\* a later call returned the cached table although the first candidate
\* path now holds another table
C7_Witness ==
    /\ cache.loaded
    /\ lOut.raised = None /\ lOut.read = 0 /\ lOut.df = cache.df
    /\ files["project"].exists
    /\ ToDatetime(files["project"].df) # cache.df

C8_Step ==
    /\ cache.loaded => cache' = cache
    /\ (CallStep /\ ~cache.loaded /\ AnyExisting) =>
          cache'.df = ToDatetime(files[FirstExisting].df)

\* C8: no request changes the cached dataset: a filled cache is the same
\* table (rows, columns, values) after every step, and the request that
\* loads it leaves in the cache exactly the table load_data() built.
C8_QueriesLeaveCacheUnchanged == [][C8_Step]_vars

\* the correlation handler wrote time_key for a request without any active
\* filter, on a cached table with rows
C8_Witness ==
    /\ lOut.op = "get_correlation_analysis" /\ lOut.raised = None
    /\ lOut.req.pollutants = NoList
    /\ cache.loaded /\ Len(cache.df.rows) > 0
    /\ "time_key" \notin cache.df.columns

(***************************************************************************)
(* Properties of AQI scoring.                                              *)
(***************************************************************************)
AqiDone == qPc = "done"

\* aqi is an integer nearest to num/den
Nearest(aqi, num, den) ==
    /\ 2 * (aqi * den - num) <= den
    /\ 2 * (num - aqi * den) <= den

\* calculate_aqi returned for a PM2.5 label and the value x
AtPM25(x) ==
    /\ AqiDone
    /\ qValue = Value(x)
    /\ NormalizeKey(qPollutant) = "PM2.5"

\* C9: for every segment of a recognised pollutant's table, the value
\* bp_low scores aqi_low and the value bp_high scores aqi_high, both with
\* the segment's category, and a value inside the segment scores an integer
\* nearest to the linear interpolation between them with that category;
\* PM2.5 at 12.0 scores 50 'Good' and PM2.5 at 12.1 scores 51 'Moderate'.
C9_SegmentInterpolation ==
    (AqiDone /\ ~qValue.nan) =>
        LET key == NormalizeKey(qPollutant)
            table == aqi_breakpoints(key)
        IN  key # None =>
            /\ \A i \in 1..Len(table) :
                 LET bp == table[i]
                     width == bp_high(bp) - bp_low(bp)
                 IN  /\ qValue.x = bp_low(bp) =>
                           qOut.aqi = aqi_low(bp) /\ qOut.category = category(bp)
                     /\ qValue.x = bp_high(bp) =>
                           qOut.aqi = aqi_high(bp) /\ qOut.category = category(bp)
                     /\ (bp_low(bp) <= qValue.x /\ qValue.x <= bp_high(bp)) =>
                           /\ qOut.available
                           /\ qOut.category = category(bp)
                           /\ Nearest(qOut.aqi,
                                      aqi_low(bp) * width
                                        + (aqi_high(bp) - aqi_low(bp))
                                            * (qValue.x - bp_low(bp)),
                                      width)
            /\ (key = "PM2.5" /\ qValue.x = Dec(12, 0)) =>
                    qOut.aqi = 50 /\ qOut.category = "Good"
            /\ (key = "PM2.5" /\ qValue.x = Dec(12, 10)) =>
                    qOut.aqi = 51 /\ qOut.category = "Moderate"

\* PM2.5 at 12.1, the lower end of the second segment, scored 51 'Moderate'
C9_Witness ==
    /\ AtPM25(Dec(12, 10))
    /\ qOut.available /\ qOut.aqi = 51 /\ qOut.category = "Moderate"

\* C10: for a recognised pollutant, a value above the highest breakpoint of
\* its table scores AQI 500 with category 'Hazardous'.
C10_AboveTopSaturates ==
    (AqiDone /\ ~qValue.nan) =>
        LET key == NormalizeKey(qPollutant)
            table == aqi_breakpoints(key)
        IN  (key # None /\ \A i \in 1..Len(table) : qValue.x > bp_high(table[i])) =>
                qOut.available /\ qOut.aqi = 500 /\ qOut.category = "Hazardous"

\* PM2.5 at 600 scored 500 'Hazardous'
C10_Witness ==
    /\ AtPM25(Dec(600, 0))
    /\ qOut.available /\ qOut.aqi = 500 /\ qOut.category = "Hazardous"

\* the highest breakpoint of a table
TopBreakpoint(table) ==
    CHOOSE h \in {bp_high(table[i]) : i \in 1..Len(table)} :
        \A i \in 1..Len(table) : bp_high(table[i]) <= h

\* C29: for a recognised pollutant a value from 0 to the highest breakpoint
\* of its table, the values between two segments included, scores the AQI
\* of a segment: at least aqi_low of every segment that starts at or below
\* the value and at most aqi_high of every segment that ends at or above
\* it, so the AQI does not decrease as the value grows; 500 'Hazardous' by
\* saturation is for the values above the highest breakpoint only.
C29_NoSaturationBelowTop ==
    (AqiDone /\ ~qValue.nan) =>
        LET key == NormalizeKey(qPollutant)
            table == aqi_breakpoints(key)
        IN  (key # None /\ 0 <= qValue.x /\ qValue.x <= TopBreakpoint(table)) =>
                /\ qOut.available
                /\ \A i \in 1..Len(table) :
                       /\ bp_low(table[i]) <= qValue.x => aqi_low(table[i]) <= qOut.aqi
                       /\ qValue.x <= bp_high(table[i]) => qOut.aqi <= aqi_high(table[i])

\* the label, in upper case, contains one of the patterns
HasAny(label, patterns) == \E pat \in patterns : In(pat, upper(label))

PatternsPM25 == {<<"P", "M", "2", ".", "5">>, <<"P", "M", " ", "2", ".", "5">>}
PatternsPM10 == {<<"P", "M", "1", "0">>, <<"P", "M", " ", "1", "0">>}
PatternsO3 == {<<"O", "3">>, <<"O", "Z", "O", "N", "E">>}
PatternsNO2 == {<<"N", "O", "2">>,
                <<"N", "I", "T", "R", "O", "G", "E", "N", " ",
                  "D", "I", "O", "X", "I", "D", "E">>}

\* the result is a result of the table of key for the value
ScoredWith(key, value, out) ==
    LET table == aqi_breakpoints(key)
        hits == {i \in 1..Len(table) : Matches(table[i], value)}
    IN  /\ out.available
        /\ IF hits = {}
           THEN out.aqi = 500 /\ out.category = "Hazardous"
           ELSE \E i \in hits :
                   /\ \A j \in hits : i <= j
                   /\ out.category = category(table[i])
                   /\ LET f == Interpolate(table[i], value)
                      IN  Nearest(out.aqi, f.num, f.den)

\* C11: the label is classified by case-insensitive substring match with
\* the priority PM2.5, PM10, O3, NO2 (a label matching a PM2.5 pattern and
\* a later pattern is scored with the PM2.5 table); a label matching no
\* pattern gets a null AQI with category 'Not Available' for every value.
C11_ClassificationPriority ==
    AqiDone =>
        IF HasAny(qPollutant, PatternsPM25) THEN ScoredWith("PM2.5", qValue, qOut)
        ELSE IF HasAny(qPollutant, PatternsPM10) THEN ScoredWith("PM10", qValue, qOut)
        ELSE IF HasAny(qPollutant, PatternsO3) THEN ScoredWith("O3", qValue, qOut)
        ELSE IF HasAny(qPollutant, PatternsNO2) THEN ScoredWith("NO2", qValue, qOut)
        ELSE ~qOut.available /\ qOut.category = "Not Available"

\* "NO2 PM2.5" at 12.1 scored 51 'Moderate' (the NO2 table gives 11 'Good')
C11_Witness ==
    /\ AqiDone
    /\ HasAny(qPollutant, PatternsPM25) /\ HasAny(qPollutant, PatternsNO2)
    /\ qValue = Value(Dec(12, 10))
    /\ qOut.available /\ qOut.aqi = 51 /\ qOut.category = "Moderate"

(***************************************************************************)
(* Properties of trend analysis.                                           *)
(***************************************************************************)
\* get_trend_analysis returned a list of trends
Trends ==
    IF hPc = "done" /\ hOp = "get_trend_analysis" /\ "trends" \in DOMAIN hOut
    THEN hOut.trends ELSE <<>>

\* the entry reports 10, 20, 30 for 2018, 2019, 2020
Is102030(t) ==
    /\ t.years = <<2018, 2019, 2020>>
    /\ t.values = <<F(10), F(20), F(30)>>

\* C12: for every reported pollutant the direction is 'stable' exactly when
\* the p-value is not below 0.05; below 0.05 it is 'increasing' for a
\* positive and 'decreasing' for a negative slope; significant is
\* (p < 0.05); 10, 20, 30 over 2018, 2019, 2020 has a positive slope,
\* R^2 = 1 and direction 'increasing'.
C12_TrendDirection ==
    \A k \in 1..Len(Trends) :
        LET t == Trends[k]
        IN  /\ (t.direction = "stable") <=> ~t.p_value.below05
            /\ (t.p_value.below05 /\ t.slope.num > 0) => t.direction = "increasing"
            /\ (t.p_value.below05 /\ t.slope.num < 0) => t.direction = "decreasing"
            /\ t.significant <=> t.p_value.below05
            /\ Is102030(t) =>
                  /\ t.slope.num > 0
                  /\ t.r_squared = F(1)
                  /\ t.direction = "increasing"

\* a response that reports 10, 20, 30 over 2018, 2019, 2020 as significant
\* and increasing
C12_Witness ==
    \E k \in 1..Len(Trends) :
        /\ Is102030(Trends[k])
        /\ Trends[k].significant
        /\ Trends[k].direction = "increasing"

\* the table and value column get_trend_analysis worked on
TrendView == Views(hDf, hReq)

\* the mean of the value column over the rows of a pollutant and year
YearMean(pollutant, year) ==
    SeriesMean(Column(SelectSeq(TrendView.display.rows,
                                LAMBDA r : r.pollutant = pollutant /\ r.year = year),
                      TrendView.value_col))

\* the years of a pollutant whose mean is a number
FiniteYears(pollutant) ==
    {y \in {TrendView.display.rows[i].year : i \in 1..Len(TrendView.display.rows)} :
        ~YearMean(pollutant, y).nan}

Earliest(S) == CHOOSE y \in S : \A z \in S : y <= z
Latest(S) == CHOOSE y \in S : \A z \in S : y >= z

\* C13: for every reported pollutant pct_change is
\* (last - first) / first * 100 over the yearly means of the earliest and
\* the latest year with a finite mean, and 0 when first is 0; 10, 20, 30
\* gives 200.
C13_PctChange ==
    \A k \in 1..Len(Trends) :
        LET t == Trends[k]
            first == YearMean(t.pollutant, Earliest(FiniteYears(t.pollutant)))
            last == YearMean(t.pollutant, Latest(FiniteYears(t.pollutant)))
        IN  /\ first.num = 0 => t.pct_change = F(0)
            /\ first.num # 0 =>
                  t.pct_change.num * last.den * first.num
                     = 100 * (last.num * first.den - first.num * last.den)
                           * t.pct_change.den
            /\ Is102030(t) => t.pct_change = F(200)

\* a pollutant whose earliest year has only NaN values: the change is taken
\* from the next year, and it is not 0
C13_Witness ==
    \E k \in 1..Len(Trends) :
        LET t == Trends[k]
        IN  /\ \E i \in 1..Len(TrendView.display.rows) :
                  /\ TrendView.display.rows[i].pollutant = t.pollutant
                  /\ TrendView.display.rows[i].year < t.first_year
            /\ t.pct_change.num # 0
            /\ t.values[1].num # 0

\* get_trend_analysis answered a request that left rows
TrendAnswered ==
    /\ hPc = "done"
    /\ hOp = "get_trend_analysis"
    /\ Len(TrendView.filtered.rows) > 0

\* the pollutants with at least 2 years whose yearly mean is a number
Qualifying ==
    {p \in {TrendView.display.rows[i].pollutant :
                i \in 1..Len(TrendView.display.rows)} :
        Cardinality(FiniteYears(p)) >= 2}

\* the dataset with the rows of one pollutant only
OnlyPollutant(df, pollutant) ==
    [df EXCEPT !.rows = SelectSeq(df.rows, LAMBDA r : r.pollutant = pollutant)]

CorrDone ==
    hPc = "done" /\ hOp = "get_correlation_analysis"
        /\ "correlations" \in DOMAIN hOut

CorrView == filter_data("backend", hDf, hReq).df

\* the coefficient 1.0
OneCoef == [nan |-> FALSE, sign |-> 1, sq |-> F(1), ulp |-> 0]

\* -1 <= c <= 1
InUnit(c) == ~c.nan /\ ~Exceeds1(c)

\* the pair list has an entry for p and q
Listed(p, q) ==
    \E k \in 1..Len(hOut.correlations) :
        {hOut.correlations[k].pollutant1, hOut.correlations[k].pollutant2} = {p, q}

\* the emitted values are in [-1, 1], a NaN coefficient is 0 in the matrix
\* and has no entry in the pair list
ValuesInUnit ==
    /\ \A p \in DOMAIN hOut.correlation_matrix :
          \A q \in DOMAIN hOut.correlation_matrix :
              /\ InUnit(hOut.correlation_matrix[p][q])
              /\ CorrOf(Pivot(CorrView), p, q, 0).nan =>
                    /\ hOut.correlation_matrix[p][q] = ZeroCoef
                    /\ ~Listed(p, q)
    /\ \A k \in 1..Len(hOut.correlations) : InUnit(hOut.correlations[k].correlation)

\* p and q have a value at every time key of the view, and the same one
Identical(p, q) ==
    /\ Len(CorrView.rows) > 0
    /\ \A i \in 1..Len(CorrView.rows) :
          LET k == CorrKey(CorrView, CorrView.rows[i])
          IN  /\ ~PivotCell(CorrView, k, p).nan
              /\ PivotCell(CorrView, k, p) = PivotCell(CorrView, k, q)

\* p has different values at two time keys
Varies(p) ==
    \E i, j \in 1..Len(CorrView.rows) :
        PivotCell(CorrView, CorrKey(CorrView, CorrView.rows[i]), p)
          # PivotCell(CorrView, CorrKey(CorrView, CorrView.rows[j]), p)

\* the pair list reports p and q with correlation 1.0, 'strong'
ListedAsOne(p, q) ==
    \E k \in 1..Len(hOut.correlations) :
        /\ {hOut.correlations[k].pollutant1, hOut.correlations[k].pollutant2} = {p, q}
        /\ hOut.correlations[k].correlation = OneCoef
        /\ hOut.correlations[k].strength = "strong"

\* C14 as stated: the emitted values are in [-1, 1], NaN coefficients are 0
\* in the matrix and absent from the pair list, and two pollutants with
\* identical values at every time key get 1.0 'strong'.
C14_CorrelationValues ==
    (hPc = "done" /\ hOp = "get_correlation_analysis") =>
        /\ CorrDone => ValuesInUnit
        /\ \A p, q \in Pollutants :
              (p # q /\ Identical(p, q)) => (CorrDone /\ ListedAsOne(p, q))

\* C14: the emitted values are in [-1, 1], NaN coefficients are 0 in the
\* matrix and absent from the pair list, and two pollutants with identical
\* values at every time key, values that are not all the same, get 1.0
\* 'strong'.
C14_CorrelationValuesVarying ==
    (hPc = "done" /\ hOp = "get_correlation_analysis") =>
        /\ CorrDone => ValuesInUnit
        /\ \A p, q \in Pollutants :
              (p # q /\ Identical(p, q) /\ Varies(p)) =>
                  (CorrDone /\ ListedAsOne(p, q))

\* two pollutants with the same two different values, reported as 1.0
C14_Witness ==
    /\ CorrDone
    /\ Identical("O3", "PM2.5") /\ Varies("O3")
    /\ ListedAsOne("O3", "PM2.5")

\* the position of a pollutant in the columns of the matrix
ColumnOf(pollutant) ==
    CHOOSE i \in 1..Len(hOut.pollutants) : hOut.pollutants[i] = pollutant

\* C28: in the pair list every pair of two different pollutants appears at
\* most once, pollutant1 before pollutant2 in column order; an entry is
\* 'strong' exactly when |r| > 0.7, 'moderate' exactly when
\* 0.4 < |r| <= 0.7 and 'weak' otherwise; the list is in order of
\* non-increasing |r|.
C28_PairList ==
    CorrDone =>
        LET list == hOut.correlations
        IN  /\ \A k \in 1..Len(list) :
                   /\ ColumnOf(list[k].pollutant1) < ColumnOf(list[k].pollutant2)
                   /\ list[k].strength = "strong"
                          <=> AbsAbove(list[k].correlation, 70)
                   /\ list[k].strength = "moderate"
                          <=> /\ AbsAbove(list[k].correlation, 40)
                              /\ ~AbsAbove(list[k].correlation, 70)
                   /\ list[k].strength = "weak"
                          <=> ~AbsAbove(list[k].correlation, 40)
            /\ \A j, k \in 1..Len(list) :
                   {list[j].pollutant1, list[j].pollutant2}
                       = {list[k].pollutant1, list[k].pollutant2} => j = k
            /\ \A k \in 1..(Len(list) - 1) :
                   ~AbsGreater(list[k + 1].correlation, list[k].correlation)

\* three pairs: 0.8 'strong', then 0.6 'moderate', then 0 'weak', the
\* columns giving them in another order
C28_Witness ==
    /\ CorrDone
    /\ Len(hOut.correlations) = 3
    /\ [k \in 1..3 |-> hOut.correlations[k].strength]
           = <<"strong", "moderate", "weak">>
    /\ hOut.correlations[1].pollutant1 = "Nitrogen dioxide (NO2)"
    /\ hOut.correlations[1].pollutant2 = "PM2.5"
    /\ hOut.correlations[3].pollutant2 = "O3"

(***************************************************************************)
(* Properties of the heatmap.                                              *)
(***************************************************************************)
\* get_heatmap_data returned rows
HeatDone ==
    hPc = "done" /\ hOp = "get_heatmap_data" /\ "boroughs" \in DOMAIN hOut

Canonical == <<"Manhattan", "Brooklyn", "Queens", "Bronx", "Staten Island">>

CanonicalRank(b) == CHOOSE i \in 1..Len(Canonical) : Canonical[i] = b

\* the boroughs of the filtered view
PresentBoroughs ==
    LET view == filter_data("backend", hDf, hReq).df
    IN  {view.rows[i].borough : i \in 1..Len(view.rows)}

\* C15: the borough sequence of the heatmap is the canonical order
\* Manhattan, Brooklyn, Queens, Bronx, Staten Island restricted to the
\* boroughs present in the filtered view, and 'Unknown' is not in it.
C15_HeatmapBoroughOrder ==
    HeatDone =>
        /\ {hOut.boroughs[i] : i \in 1..Len(hOut.boroughs)}
              = PresentBoroughs \cap {Canonical[i] : i \in 1..Len(Canonical)}
        /\ \A i, j \in 1..Len(hOut.boroughs) :
              i < j => CanonicalRank(hOut.boroughs[i]) < CanonicalRank(hOut.boroughs[j])
        /\ \A i \in 1..Len(hOut.boroughs) : hOut.boroughs[i] # "Unknown"
        /\ DOMAIN hOut.data = {hOut.boroughs[i] : i \in 1..Len(hOut.boroughs)}

\* a view with Bronx before Manhattan and an Unknown row gives
\* Manhattan, Bronx
C15_Witness ==
    /\ HeatDone
    /\ hOut.boroughs = <<"Manhattan", "Bronx">>
    /\ "Unknown" \in PresentBoroughs
    /\ hDf.rows[1].borough = "Bronx"

(***************************************************************************)
(* Properties of the time series.                                          *)
(***************************************************************************)
TsDone == hPc = "done" /\ hOp = "get_timeseries_data"

TsEmitted == TsDone /\ "x_col" \in DOMAIN hOut

\* the month a season stands for in the chronological order
SeasonMonth(season) ==
    CASE season = "Winter" -> 1
      [] season = "Spring" -> 3
      [] season = "Summer" -> 6
      [] season = "Fall" -> 9
      [] season = "Annual" -> 1

\* the chronological key of an emitted row
ChronoKey(level, row) ==
    CASE level = "Season" -> row.date_str[2] * 100 + SeasonMonth(row.date_str[1])
      [] level = "Year" -> row.year
      [] OTHER -> row.date

TsInput ==
    LET v == Views(hDf, hReq)
    IN  TsData(v.display, hReq.agg_level, v.value_col)

\* C23: after the normalization and the re-aggregation the time series has
\* at most one row per x-axis key and short label, and its value is the
\* mean of the values of the rows of that key whose label has that short
\* label.
C23_TimeseriesMerging ==
    TsEmitted =>
        LET ts == TsInput
            x == hOut.x_col
            val == hOut.value_col
        IN  /\ \A i, j \in 1..Len(hOut.data) :
                   /\ hOut.data[i][x] = hOut.data[j][x]
                   /\ hOut.data[i].pollutant_short = hOut.data[j].pollutant_short
                   => i = j
            /\ \A i \in 1..Len(hOut.data) :
                   hOut.data[i][val]
                       = SeriesMean(Column(
                             SelectSeq(ts,
                                 LAMBDA r :
                                     /\ r[x] = hOut.data[i][x]
                                     /\ normalize_pollutant_name(r.pollutant)
                                            = hOut.data[i].pollutant_short),
                             val))
            /\ \A k \in 1..Len(ts) :
                   \E i \in 1..Len(hOut.data) :
                       /\ hOut.data[i][x] = ts[k][x]
                       /\ hOut.data[i].pollutant_short
                              = normalize_pollutant_name(ts[k].pollutant)

\* a vehicle row of 20 and a truck row of 40 in one season: one row of 30
C23_Witness ==
    /\ TsEmitted
    /\ hReq.agg_level = "Season"
    /\ Len(TsInput) = 2
    /\ TsInput[1].pollutant # TsInput[2].pollutant
    /\ hOut.data = <<[date_str |-> <<"Winter", 2020>>, sort_key |-> 202001,
                      pollutant_short |-> "Vehicle Miles", value_mean |-> F(30)]>>

(***************************************************************************)
(* Properties of the name normalizer.                                      *)
(***************************************************************************)
NormDone == nOut.site # "none"

\* the character is the letter, in either case
SameLetter(c, letter) ==
    \/ c = letter
    \/ \E k \in 1..Len(LowerCase) : LowerCase[k] = letter /\ UpperCase[k] = c

\* the label contains the word, in any letter case
ContainsAnyCase(word, label) ==
    \E i \in 0..(Len(label) - Len(word)) :
        \A k \in 1..Len(word) : SameLetter(label[i + k], word[k])

VehicleOrTruck(label) ==
    \/ ContainsAnyCase(<<"v", "e", "h", "i", "c", "l", "e">>, label)
    \/ ContainsAnyCase(<<"t", "r", "u", "c", "k">>, label)

\* C17: at the heatmap and the time-series call sites the normalizer gives
\* the same short label for the same raw label, and every raw label that
\* contains 'vehicle' or 'truck' in any letter case gets 'Vehicle Miles',
\* so two such labels share one bucket.
C17_VehicleLabelsShareBucket ==
    NormDone =>
        /\ nIn[1] = nIn[2] => nOut.short[1] = nOut.short[2]
        /\ \A k \in 1..2 :
               VehicleOrTruck(nIn[k]) => nOut.short[k] = VehicleMiles
        /\ VehicleOrTruck(nIn[1]) /\ VehicleOrTruck(nIn[2])
               => nOut.short[1] = nOut.short[2]

\* 'Annual VEHICLE miles traveled' and 'Trucks' in the time series
C17_Witness ==
    /\ NormDone
    /\ nOut.site = "timeseries"
    /\ nIn[1] = <<"A", "n", "n", "u", "a", "l", " ", "V", "E", "H", "I", "C", "L",
                  "E", " ", "m", "i", "l", "e", "s", " ", "t", "r", "a", "v", "e",
                  "l", "e", "d">>
    /\ nIn[2] = <<"T", "r", "u", "c", "k", "s">>
    /\ nOut.short = <<VehicleMiles, VehicleMiles>>

(***************************************************************************)
(* Properties of the heatmap's column names.                               *)
(***************************************************************************)
ColumnsDone == nOut.site = "heatmap_columns"

\* the short names of the pivot's columns, before the loop
ShortNames ==
    LET columns == PivotColumns(nIn)
    IN  [i \in 1..Len(columns) |-> get_short_name_unique(columns[i])]

\* the number of earlier columns with the short name of column i
Earlier(i) == Cardinality({j \in 1..(i - 1) : ShortNames[j] = ShortNames[i]})

\* C24: the first column of a short name keeps the bare name, the k-th
\* later column of that short name is named with the name followed by
\* ' (k)', and the resulting names are pairwise distinct, whatever the
\* labels.
C24_ColumnNamesDistinct ==
    ColumnsDone =>
        /\ Len(nOut.columns) = Len(ShortNames)
        /\ \A i \in 1..Len(ShortNames) :
               nOut.columns[i]
                   = IF Earlier(i) = 0 THEN ShortNames[i]
                     ELSE ShortNames[i] \o <<" ", "(">> \o str(Earlier(i)) \o <<")">>
        /\ \A i, j \in 1..Len(nOut.columns) :
               nOut.columns[i] = nOut.columns[j] => i = j

\* three labels with the same first 25 characters, one of them spelled as
\* a renamed column
C24_Witness ==
    /\ ColumnsDone
    /\ Len(nIn) = 3
    /\ nIn[1] = Asthma25
    /\ nIn[2] = Asthma25 \o <<" ", "(", "1", ")">>
    /\ nOut.columns = <<Asthma25, Asthma25 \o <<" ", "(", "1", ")">>,
                        Asthma25 \o <<" ", "(", "2", ")">>>>

(***************************************************************************)
(* Properties of the KPIs.                                                 *)
(***************************************************************************)
KpiDone == hPc = "done" /\ hOp \in {"get_kpis", "KeyMetrics"}

\* the filters eliminate every row of the request's table
KpiZeroRows ==
    Len(filter_data("backend", hDf, hReq).df.rows) = 0

AllZero(resp) ==
    /\ {"mean", "median", "p25", "p75", "p95", "count"} \subseteq DOMAIN resp
    /\ resp.mean = F(0) /\ resp.median = F(0) /\ resp.p25 = F(0)
    /\ resp.p75 = F(0) /\ resp.p95 = F(0) /\ resp.count = 0

\* C18 as stated: on a zero-row input the KPIs are all 0 and no error is
\* reported.
C18_ZeroRowsGiveZeros ==
    KpiDone /\ KpiZeroRows =>
        AllZero(hOut) /\ "error" \notin DOMAIN hOut /\ "stopped" \notin DOMAIN hOut

\* C18, amended: on a zero-row input no metric is reported: the endpoint
\* answers with the no-data marker and the dashboard stops with its warning;
\* the metrics are reported exactly when a row is left, and then the count
\* is at least 1.
C18_ZeroRowsGiveNoDataMarker ==
    KpiDone =>
        IF KpiZeroRows
        THEN hOut = (IF hOp = "get_kpis" THEN NoDataError ELSE Stopped)
        ELSE /\ {"mean", "median", "p25", "p75", "p95", "count"} \subseteq DOMAIN hOut
             /\ "error" \notin DOMAIN hOut
             /\ "stopped" \notin DOMAIN hOut
             /\ hOut.count >= 1

\* a table with rows, none of them of the requested pollutant
C18_Witness ==
    /\ KpiDone
    /\ hOp = "get_kpis"
    /\ Len(hDf.rows) > 0
    /\ KpiZeroRows
    /\ hOut = NoDataError

(***************************************************************************)
(* Properties of the endpoints on an empty filter result.                  *)
(***************************************************************************)
EndpointDone ==
    hPc = "done" /\ hOp \in DataEndpoints \cup {"get_comparison_data"}

\* the FilterRequest of the request
FiltersOf(request) ==
    IF "filters" \in DOMAIN request THEN request.filters ELSE request

\* the filters eliminate every row
NothingLeft ==
    Len(filter_data("backend", hDf, FiltersOf(hReq)).df.rows) = 0

\* empty data and/or a message string
NoDataOutcome(resp) ==
    \/ "data" \in DOMAIN resp /\ resp.data = <<>>
    \/ "message" \in DOMAIN resp
    \/ "error" \in DOMAIN resp

\* C19: when the filters eliminate all rows, every data endpoint completes
\* without an exception and answers with empty data and/or a message, at
\* every aggregation level.
C19_EmptyResultIsNoData ==
    EndpointDone /\ NothingLeft =>
        "raised" \notin DOMAIN hOut /\ NoDataOutcome(hOut)

\* export at Season level of a table without O3 rows, O3 requested
C19_Witness ==
    /\ EndpointDone
    /\ hOp = "export_data"
    /\ hReq.agg_level = "Season"
    /\ Len(hDf.rows) > 0
    /\ NothingLeft
    /\ hOut = [data |-> <<>>, count |-> 0]

(***************************************************************************)
(* Properties of the comparison.                                           *)
(***************************************************************************)
\* a comparison of pollutants has answered with rows
ComparedPollutants ==
    /\ hPc = "done"
    /\ hOp = "get_comparison_data"
    /\ hReq.comparison_type = "pollutants"
    /\ "data" \in DOMAIN hOut
    /\ "message" \notin DOMAIN hOut

\* C25: in pollutant mode, with single_filter 'All' or absent the rows of
\* every borough are compared, and the result carries for every compared
\* pollutant the unit of that pollutant, at every aggregation level.
C25_ComparisonCarriesOwnUnits ==
    ComparedPollutants =>
        LET df_display == Views(hDf, hReq.filters).display
        IN  /\ hReq.single_filter \in {"All", None}
                   => hOut.data
                          = SelectSeq(df_display.rows,
                                LAMBDA r : IsIn(r.pollutant, hReq.selected_items))
            /\ \A i \in 1..Len(hOut.data) :
                   /\ "unit" \in DOMAIN hOut.data[i]
                   /\ hOut.data[i].unit = UnitOf(hOut.data[i].pollutant)

(***************************************************************************)
(* Properties of the seasonal patterns.                                    *)
(***************************************************************************)
\* the filtered view of the request
SeasonalView == filter_data("backend", hDf, hReq).df

\* get_seasonal_patterns has run on a view with rows
SeasonalRan ==
    /\ hPc = "done"
    /\ hOp = "get_seasonal_patterns"
    /\ Len(SeasonalView.rows) > 0

\* the mean of the values of a pollutant in a season
SeasonMean(pollutant, season) ==
    SeriesMean(Column(SelectSeq(SeasonalView.rows,
                                LAMBDA r : r.pollutant = pollutant /\ r.season = season),
                      "value"))

\* the position of a season in the seasons of an entry
SeasonIndex(e, season) ==
    CHOOSE i \in 1..Len(e.seasons) : e.seasons[i].season = season

\* C27: for every pollutant of the filtered view worst_season is a season
\* whose mean is at least the mean of every other season and best_season
\* one whose mean is at most the mean of every other season; among seasons
\* of equal mean the first in the order of the groups is taken, and a
\* pollutant with one season has worst_season = best_season.
C27_SeasonalWorstAndBest ==
    SeasonalRan =>
        /\ "seasonal_patterns" \in DOMAIN hOut
        /\ \A p \in {SeasonalView.rows[i].pollutant : i \in 1..Len(SeasonalView.rows)} :
               \E k \in 1..Len(hOut.seasonal_patterns) :
                   LET e == hOut.seasonal_patterns[k]
                       mean(s) == SeasonMean(p, s)
                       numbered == {e.seasons[i].season : i \in
                                       {j \in 1..Len(e.seasons) :
                                           ~e.seasons[j].avg_value.nan}}
                   IN  /\ e.pollutant = p
                       /\ \A s \in numbered :
                              /\ ~FLess(mean(e.worst_season), mean(s))
                              /\ ~FLess(mean(s), mean(e.best_season))
                              /\ mean(s) = mean(e.worst_season)
                                     => SeasonIndex(e, e.worst_season)
                                            <= SeasonIndex(e, s)
                              /\ mean(s) = mean(e.best_season)
                                     => SeasonIndex(e, e.best_season)
                                            <= SeasonIndex(e, s)
                       /\ Len(e.seasons) = 1 => e.worst_season = e.best_season

(***************************************************************************)
(* Properties of the accessor under concurrent callers.                    *)
(***************************************************************************)
\* the table of the file load_data() reads, its date column converted
FileContent == ToDatetime(files[PossiblePaths[FirstPath(files)]].df)

\* the table is fully built (its dates are converted) and equal to the
\* content of the file
Loaded(df) == df = FileContent

\* C20: whatever the interleaving of the callers on first access, every
\* caller that returns holds the table of the file, the cache never holds
\* anything else (in particular no table whose dates are not converted),
\* and once a caller has returned the cache is filled.
C20_RacingLoadsAgree ==
    FirstPath(files) # 0 =>
        /\ \A t \in Callers : tPc[t] = "done" => Loaded(tRet[t])
        /\ cache.loaded => Loaded(cache.df)
        /\ (\E t \in Callers : tPc[t] = "done") => cache.loaded

\* two callers found the cache empty, both read the file and returned
C20_Witness ==
    /\ \A t \in {1, 2} : tPc[t] = "done" /\ tFile[t] # 0
    /\ Len(FileContent.rows) > 0
    /\ Loaded(tRet[1])
    /\ Loaded(tRet[2])
    /\ cache.loaded

(***************************************************************************)
(* Properties of the grouping of aggregate_data.                           *)
(***************************************************************************)
\* the grouping key of the level, extended by borough when the column
\* exists and holds a value
ClaimedKey(df, agg_level) ==
    (CASE agg_level = "Year" -> <<"year", "pollutant">>
       [] agg_level = "Month" -> <<"year", "month", "pollutant">>
       [] agg_level = "Season" -> <<"season", "year", "pollutant">>)
    \o (IF /\ "borough" \in df.columns
           /\ \E i \in 1..Len(df.rows) : df.rows[i].borough # NaN
        THEN <<"borough">> ELSE <<>>)

KeysIn(df, cols) == {KeyOf(df.rows[i], cols) : i \in 1..Len(df.rows)}

\* C21: the aggregate holds exactly one row per key tuple of its input; the
\* key is that of the level plus borough exactly when the borough column
\* holds a value, and a key with a missing component is a group of its own.
C21_OneRowPerKey ==
    Aggregated =>
        LET cols == ClaimedKey(aFiltered, aReq.agg_level)
        IN  /\ {cols[j] : j \in 1..Len(cols)} \subseteq aDisplay.columns
            /\ "borough" \in aDisplay.columns
                   <=> \E j \in 1..Len(cols) : cols[j] = "borough"
            /\ KeysIn(aDisplay, cols) = KeysIn(aFiltered, cols)
            /\ Len(aDisplay.rows) = Cardinality(KeysIn(aFiltered, cols))

\* one period and pollutant, one row in Manhattan and one without borough:
\* two groups, one of them with the missing borough
C21_Witness ==
    /\ Aggregated
    /\ aReq.agg_level = "Season"
    /\ Len(aFiltered.rows) = 2
    /\ aFiltered.rows[1].borough = "Manhattan"
    /\ aFiltered.rows[2].borough = NaN
    /\ aFiltered.rows[1].pollutant = aFiltered.rows[2].pollutant
    /\ aFiltered.rows[1].date = aFiltered.rows[2].date
    /\ Len(aDisplay.rows) = 2
    /\ \E i \in 1..2 : aDisplay.rows[i].borough = NaN

(***************************************************************************)
(* Properties of the choropleth.                                           *)
(***************************************************************************)
MapDone == hPc = "done" /\ hOp = "get_map_data"

\* the response carries averages
MapAveraged == MapDone /\ "pollutant" \in DOMAIN hOut

\* no pollutant is requested
NoneRequested(request) ==
    request.pollutants.isNone \/ Len(request.pollutants.list) = 0

\* the filtered rows the averages are taken over: all of them, or those of
\* the first requested pollutant
Averaged(df, request) ==
    SelectSeq(filter_data("backend", df, request).df.rows,
              LAMBDA r : /\ r.borough # "Unknown"
                         /\ NoneRequested(request)
                                \/ r.pollutant = request.pollutants.list[1])

\* C22: the choropleth has no row for 'Unknown'; a borough's avg_value is
\* the mean of value over its filtered rows, of all pollutants when none is
\* requested and of the first requested pollutant otherwise.
C22_ChoroplethAverages ==
    /\ MapDone =>
          \A i \in 1..Len(hOut.data) : hOut.data[i].borough # "Unknown"
    /\ MapAveraged =>
          LET pool == Averaged(hDf, hReq)
          IN  /\ {hOut.data[i].borough : i \in 1..Len(hOut.data)}
                     = {pool[k].borough : k \in 1..Len(pool)}
              /\ \A i, j \in 1..Len(hOut.data) :
                     hOut.data[i].borough = hOut.data[j].borough => i = j
              /\ \A i \in 1..Len(hOut.data) :
                     hOut.data[i].avg_value
                         = SeriesMean(Column(
                               SelectSeq(pool,
                                         LAMBDA r : r.borough = hOut.data[i].borough),
                               "value"))

\* O3 and PM2.5 requested, one row of each in Manhattan: the average is
\* that of the O3 row
C22_Witness ==
    /\ MapAveraged
    /\ hReq.pollutants = List(<<"O3", "PM2.5">>)
    /\ Len(hDf.rows) = 2
    /\ hDf.rows[1].pollutant = "PM2.5" /\ hDf.rows[1].value = F(20)
    /\ hDf.rows[2].pollutant = "O3" /\ hDf.rows[2].value = F(10)
    /\ hDf.rows[1].borough = "Manhattan" /\ hDf.rows[2].borough = "Manhattan"
    /\ hOut.data = <<[borough |-> "Manhattan", avg_value |-> F(10)]>>

\* C30: when a pollutant is requested, the unit of the choropleth is the
\* unit of the rows of the first requested pollutant, whose values were
\* averaged.
C30_MapUnitOfAveragedPollutant ==
    MapAveraged /\ ~NoneRequested(hReq) =>
        LET pool == Averaged(hDf, hReq)
        IN  \A k \in 1..Len(pool) : hOut.unit = pool[k].unit

====
